---- MODULE Spec2Model ----
(***************************************************************************)
(* Model of the crypto signal bot: the confluence scorer of                *)
(* signal_detector.py (SignalDetector) and the scan loop of main.py        *)
(* (ClaudeCryptoBot).                                                      *)
(*                                                                         *)
(* Numbers.  The code computes in float64; the model computes the same     *)
(* expressions exactly, on scaled integers:                                *)
(*   - a price (open, high, low, close, ema_200) is a whole number of      *)
(*     price quanta, one quantum being 1e-8, the precision the signal is   *)
(*     rounded to;                                                         *)
(*   - bb_middle and the three plan prices (entry, stop, target) are in    *)
(*     hundredths of a quantum, so that x0.97, x1.03, x1.06 and x0.94 are  *)
(*     exact;                                                              *)
(*   - an RSI is in hundredths of a point (24.00 is 2400), a band distance *)
(*     in hundredths of a percent (2.0 % is 200);                          *)
(*   - a ratio compared with a threshold is compared by cross              *)
(*     multiplication.                                                     *)
(* NaN is a value of its own: every comparison with it is false.           *)
(*                                                                         *)
(* The 4h series.  The scorer reads only trailing windows of df_4h: the    *)
(* last 20 closes and RSI values, the last 10 candles, the last 5 closes   *)
(* and the latest record.  The model holds a series of at least 20         *)
(* candles by those windows.  The fields that both evaluations read        *)
(* before the RSI gate (steps 1-3) are fixed in the initial state.  The    *)
(* daily record and bb_middle, which an evaluation reads late, are fixed   *)
(* by the first step that reads them and kept from then on.  The other     *)
(* fields, which one step alone reads (the earlier closes and RSI values,  *)
(* the opens and volumes, the band distances, the hourly record), are      *)
(* drawn by that step from Feed.                                           *)
(*                                                                         *)
(* The scan.  scan_market is a step machine over the watchlist: one step   *)
(* per iteration up to the cooldown test, one for send_claude_signal, one  *)
(* for the ledger stamp, so that the clock can move between the two reads  *)
(* of time.time() and the post.  The clock counts periods of 3 hours, so   *)
(* the cooldown of 6 * 3600 seconds is 2 periods.  The bot analyses with   *)
(* ClaudeAnalyst and never calls detect_signals: Spec runs the scorer with *)
(* the bot at rest, SpecScan the scans with the scorer at rest.            *)
(*                                                                         *)
(* The parts.  SpecKeys follows a one-instrument bot over the scans of one *)
(* clock period, SpecBody the loop body of scan_market for one symbol call *)
(* by call (each fetch_ohlcv attempt, the test of `data`, the API call),   *)
(* SpecStructure applies _calculate_market_structure to windows of highs   *)
(* and lows, SpecEngine applies calculate_indicators and the length test   *)
(* of get_market_context to a frame, SpecDivergence and SpecWick apply     *)
(* _check_rsi_divergence and _check_rejection_wick to a window of records, *)
(* SpecDelivery follows a one-instrument bot whose messages may fail to be *)
(* delivered.  Each runs with the other parts at rest.                     *)
(***************************************************************************)
EXTENDS Integers, Sequences, FiniteSets, TLC

VARIABLES
    scenario,          \* which snapshots the behaviour draws from: "any", "A" or "C"
    df_4h,             \* the 4h series: [close5, highs, lows, open, rsi, ema_200]
    latest_1d,         \* latest daily record, or NoCandle
    latest_1h,         \* latest hourly record, or NoCandle
    bb_middle,         \* latest_4h['bb_middle']
    pc,                \* the step of detect_signals about to be executed
    score,             \* local `score` of the running evaluation
    market_structure,  \* local `market_structure` of the running evaluation
    plan,              \* locals of the trade-plan construction
    signals            \* the list detect_signals returns

scorerVars ==
    <<scenario, df_4h, latest_1d, latest_1h, bb_middle, pc, score, market_structure, plan,
      signals>>

VARIABLES
    watchlist,         \* self.watchlist
    analyst,           \* what the API answers: "any" response, or "signals" only
    now,               \* time.time(), in periods of 3 hours
    scan_pc,           \* the line of scan_market about to be executed, or "idle"
    scans,             \* how many scans the scheduling loop has started
    symbol_idx,        \* position of `symbol` in the watchlist, 0 outside a scan
    signal,            \* local `signal` of the iteration, or NoSignal
    sent_signals,      \* self.sent_signals: signal_key -> time of the last stamp
    daily_stats,       \* self.daily_stats
    notifications,     \* signal_key -> the times send_claude_signal posted a message for it
    network,           \* what becomes of a post: "up", it is delivered; "any", it is
                       \* delivered or fails; "unconfigured", the bot has no token
    deliveries         \* signal_key -> what became of each message, in order

scanVars ==
    <<watchlist, analyst, now, scan_pc, scans, symbol_idx, signal, sent_signals, daily_stats,
      notifications, network, deliveries>>

VARIABLES
    ohlcv,             \* timeframe -> what fetch_ohlcv does on the successive calls
    response,          \* what the API call of analyze_coin gets
    eval_pc,           \* where the loop body is: "fetch", "test", "analyze", "done"
    tf_idx,            \* position of `tf` in self.timeframes
    attempt_no,        \* local `attempt` of the running fetch_data
    calls,             \* timeframe -> number of fetch_ohlcv calls made
    dfs,               \* timeframe -> what fetch_data returned
    held,              \* the timeframes the local dict `data` holds
    api_calls,         \* number of client.messages.create calls made
    outcome            \* [state, signal]: how the iteration went for the symbol

evalVars ==
    <<ohlcv, response, eval_pc, tf_idx, attempt_no, calls, dfs, held, api_calls, outcome>>

VARIABLES
    frame,             \* the DataFrame of calculate_indicators: the limit it was
                       \* fetched with, its length, its columns, its last 15
                       \* closes, and the RSI and ema_200 of the last row
    frame_pc           \* "ohlcv" before calculate_indicators has run, then "done",
                       \* then how get_market_context took the frame

engineVars == <<frame, frame_pc>>

VARIABLES
    window,            \* what a helper of SignalDetector is called with
    verdict            \* what the helper returned for each direction, or NoVerdict

helperVars == <<window, verdict>>

vars == <<scorerVars, scanVars, evalVars, engineVars, helperVars>>

----------------------------------------------------------------------------
(* Values that are not numbers *)

NaN == -1
None == -2

IsNum(x) == x # NaN /\ x # None

\* float comparison: false as soon as one side is NaN
Lt(a, b) == a # NaN /\ b # NaN /\ a < b
Gt(a, b) == a # NaN /\ b # NaN /\ a > b

NoCandle == [present |-> FALSE, rsi |-> 0, ema_200 |-> 0, close |-> 0]

----------------------------------------------------------------------------
(* Thresholds of SignalDetector.__init__ and of the two evaluations *)

rsi_oversold == 3000
rsi_overbought == 7000
bb_threshold == 200
min_score_long == 8
min_score_short == 8

Abs(x) == IF x < 0 THEN -x ELSE x
Min(a, b) == IF a < b THEN a ELSE b
Max(a, b) == IF a > b THEN a ELSE b

----------------------------------------------------------------------------
(* Market Structure Analyzer: the helpers of SignalDetector *)

\* _calculate_market_structure on the trailing window (highs, lows): the loop
\* `for i in range(2, len(highs))` with its if/elif counters.
HigherCount(xs) ==
    Cardinality({i \in 3..Len(xs) : xs[i] > xs[i-1] /\ xs[i-1] > xs[i-2]})

LowerCount(xs) ==
    Cardinality({i \in 3..Len(xs) :
        /\ ~(xs[i] > xs[i-1] /\ xs[i-1] > xs[i-2])
        /\ xs[i] < xs[i-1] /\ xs[i-1] < xs[i-2]})

\* the classification with `or` for `and`
calculate_market_structure_either(highs, lows) ==
    LET higher_highs == HigherCount(highs)
        lower_highs == LowerCount(highs)
        higher_lows == HigherCount(lows)
        lower_lows == LowerCount(lows)
    IN  IF higher_highs > lower_highs \/ higher_lows > lower_lows THEN "uptrend"
        ELSE IF lower_highs > higher_highs \/ lower_lows > higher_lows THEN "downtrend"
        ELSE "range"

calculate_market_structure(highs, lows) ==
    LET higher_highs == HigherCount(highs)
        lower_highs == LowerCount(highs)
        higher_lows == HigherCount(lows)
        lower_lows == LowerCount(lows)
    IN  IF higher_highs > lower_highs /\ higher_lows > lower_lows THEN "uptrend"
        ELSE IF lower_highs > higher_highs /\ lower_lows > higher_lows THEN "downtrend"
        ELSE "range"

\* the pivots of _check_rsi_divergence: `for i in range(2, len(closes)-2)`
PriceLowsIdx(closes) ==
    {i \in 3..(Len(closes) - 2) :
        /\ closes[i] < closes[i-1] /\ closes[i] < closes[i-2]
        /\ closes[i] < closes[i+1] /\ closes[i] < closes[i+2]}

PriceHighsIdx(closes) ==
    {i \in 3..(Len(closes) - 2) :
        /\ closes[i] > closes[i-1] /\ closes[i] > closes[i-2]
        /\ closes[i] > closes[i+1] /\ closes[i] > closes[i+2]}

MaxOf(S) == CHOOSE x \in S : \A y \in S : y <= x

MinOf(S) == CHOOSE x \in S : \A y \in S : x <= y

\* the comparison made on the two oldest pivots of the window
check_rsi_divergence_oldest(closes, rsi_values, divergence_type) ==
    IF Len(closes) < 10 THEN FALSE
    ELSE LET idx == IF divergence_type = "bullish" THEN PriceLowsIdx(closes)
                    ELSE PriceHighsIdx(closes)
         IN  IF Cardinality(idx) < 2 THEN FALSE
             ELSE LET idx1 == MinOf(idx)
                      idx2 == MinOf(idx \ {idx1})
                  IN  IF divergence_type = "bullish"
                      THEN /\ closes[idx2] < closes[idx1]
                           /\ Gt(rsi_values[idx2], rsi_values[idx1])
                      ELSE /\ closes[idx2] > closes[idx1]
                           /\ Lt(rsi_values[idx2], rsi_values[idx1])

\* _check_rsi_divergence(df, divergence_type) on the trailing 20 closes and RSIs
check_rsi_divergence(closes, rsi_values, divergence_type) ==
    IF Len(closes) < 10 THEN FALSE
    ELSE LET idx == IF divergence_type = "bullish" THEN PriceLowsIdx(closes)
                    ELSE PriceHighsIdx(closes)
         IN  IF Cardinality(idx) < 2 THEN FALSE
             ELSE LET idx2 == MaxOf(idx)
                      idx1 == MaxOf(idx \ {idx2})
                  IN  IF divergence_type = "bullish"
                      THEN /\ closes[idx2] < closes[idx1]
                           /\ Gt(rsi_values[idx2], rsi_values[idx1])
                      ELSE /\ closes[idx2] > closes[idx1]
                           /\ Lt(rsi_values[idx2], rsi_values[idx1])

RECURSIVE SumVolume(_, _)
\* sum of `volume` over the candles of `recent` whose body has sign `sgn`
SumVolume(recent, sgn) ==
    IF recent = <<>> THEN 0
    ELSE LET c == Head(recent)
             hit == IF sgn > 0 THEN c.close > c.open ELSE c.close < c.open
         IN  (IF hit THEN c.volume ELSE 0) + SumVolume(Tail(recent), sgn)

\* _calculate_directional_volume: the ratio volume_up / total_volume as the pair
\* [up, total]; a zero total is the ratio 0, that is [0, 1].
calculate_directional_volume(recent) ==
    LET volume_up == SumVolume(recent, 1)
        volume_down == SumVolume(recent, -1)
        total_volume == volume_up + volume_down
    IN  IF total_volume = 0 THEN [up |-> 0, total |-> 1]
        ELSE [up |-> volume_up, total |-> total_volume]

\* the test with a wick of exactly twice the body accepted
check_rejection_wick_inclusive(candle, direction) ==
    LET body_size == Abs(candle.close - candle.open)
        total_range == candle.high - candle.low
        lower_wick == Min(candle.open, candle.close) - candle.low
        upper_wick == candle.high - Max(candle.open, candle.close)
    IN  IF total_range = 0 THEN FALSE
        ELSE IF direction = "bullish"
             THEN lower_wick >= 2 * body_size /\ 2 * lower_wick > total_range
        ELSE IF direction = "bearish"
             THEN upper_wick >= 2 * body_size /\ 2 * upper_wick > total_range
        ELSE FALSE

\* _check_rejection_wick(candle, direction)
check_rejection_wick(candle, direction) ==
    LET body_size == Abs(candle.close - candle.open)
        total_range == candle.high - candle.low
        lower_wick == Min(candle.open, candle.close) - candle.low
        upper_wick == candle.high - Max(candle.open, candle.close)
    IN  IF total_range = 0 THEN FALSE
        ELSE IF direction = "bullish"
             THEN lower_wick > 2 * body_size /\ 2 * lower_wick > total_range
        ELSE IF direction = "bearish"
             THEN upper_wick > 2 * body_size /\ 2 * upper_wick > total_range
        ELSE FALSE

RECURSIVE GCD(_, _)
GCD(a, b) == IF b = 0 THEN a ELSE GCD(b, a % b)

\* a fraction in lowest terms with a positive denominator
Frac(n, d) ==
    LET g == GCD(Abs(n), Abs(d))
        s == IF d < 0 THEN -1 ELSE 1
    IN  [n |-> s * (n \div g), d |-> s * (d \div g)]

FracAdd(x, y) == Frac(x.n * y.d + y.n * x.d, x.d * y.d)

RECURSIVE SumChanges(_, _)
\* sum over i >= from of (closes[i] - closes[i-1]) / closes[i-1]
SumChanges(closes, from) ==
    IF from > Len(closes) THEN Frac(0, 1)
    ELSE FracAdd(Frac(closes[from] - closes[from-1], closes[from-1]),
                 SumChanges(closes, from + 1))

\* `np.mean(drops) * 100` over the last 5 closes, as a fraction of percent
AvgChangePct(last_5_closes) ==
    LET s == SumChanges(last_5_closes, 2)
    IN  Frac(100 * s.n, (Len(last_5_closes) - 1) * s.d)

FracLt(x, k) == x.n < k * x.d
FracGt(x, k) == x.n > k * x.d

----------------------------------------------------------------------------
(* Rounding of the fields of an emitted signal *)

\* n / q rounded to the nearest whole number, ties to even (Python's round);
\* n >= 0, q > 0
RoundDiv(n, q) ==
    LET k == n \div q
        r == n % q
    IN  IF 2 * r < q THEN k
        ELSE IF 2 * r > q THEN k + 1
        ELSE IF k % 2 = 0 THEN k ELSE k + 1

\* round(x, 8) of a price given in hundredths of a quantum: still in hundredths
Round8(x) == 100 * RoundDiv(x, 100)

\* round(x, 1) of an RSI given in hundredths of a point: still in hundredths
Round1(x) == IF x = NaN THEN NaN ELSE 10 * RoundDiv(x, 10)

\* round(n / d, 2), in hundredths
Round2(n, d) == RoundDiv(100 * n, d)

----------------------------------------------------------------------------
(* The steps of _check_long_setup.  A step yields [veto, delta]: veto is the *)
(* early `return None`, delta what the step adds to `score`.                 *)

Step(v, d) == [veto |-> v, delta |-> d]

\* FILTRE #1 with the 5 % veto left out: a price below the EMA is only penalised
LongTrendPenaltyOnly(price, ema_200) ==
    IF price < ema_200 THEN Step(FALSE, -2) ELSE Step(FALSE, 3)

\* FILTRE #1 (EMA 200)
LongTrend(price, ema_200) ==
    IF price < ema_200
    THEN IF (ema_200 - price) * 100 > 5 * ema_200 THEN Step(TRUE, 0)
         ELSE Step(FALSE, -2)
    ELSE Step(FALSE, 3)

\* FILTRE #2 without the veto
LongStructureNoVeto(structure) ==
    IF structure = "downtrend" THEN Step(FALSE, 0)
    ELSE IF structure = "uptrend" THEN Step(FALSE, 2)
    ELSE Step(FALSE, 1)

\* FILTRE #2 (structure)
LongStructure(structure) ==
    IF structure = "downtrend" THEN Step(TRUE, 0)
    ELSE IF structure = "uptrend" THEN Step(FALSE, 2)
    ELSE Step(FALSE, 1)

\* FILTRE #3 with `<=` for the oversold threshold
LongRsiInclusive(rsi_4h) ==
    IF Lt(rsi_4h, 2500) THEN Step(FALSE, 2)
    ELSE IF Lt(rsi_4h, rsi_oversold + 1) THEN Step(FALSE, 1)
    ELSE Step(TRUE, 0)

\* FILTRE #3 (RSI oversold)
LongRsi(rsi_4h) ==
    IF Lt(rsi_4h, 2500) THEN Step(FALSE, 2)
    ELSE IF Lt(rsi_4h, rsi_oversold) THEN Step(FALSE, 1)
    ELSE Step(TRUE, 0)

\* FILTRE #4 with the bonus of the RSI step
LongDivergenceTwo(closes, rsi_values) ==
    IF check_rsi_divergence(closes, rsi_values, "bullish") THEN Step(FALSE, 2)
    ELSE Step(FALSE, 0)

\* FILTRE #4 (bullish divergence)
LongDivergence(closes, rsi_values) ==
    IF check_rsi_divergence(closes, rsi_values, "bullish") THEN Step(FALSE, 3)
    ELSE Step(FALSE, 0)

\* FILTRE #5 (directional volume): vol_ratio < 0.3, < 0.4, else
LongVolume(vol_ratio) ==
    IF 10 * vol_ratio.up < 3 * vol_ratio.total THEN Step(FALSE, -2)
    ELSE IF 10 * vol_ratio.up < 4 * vol_ratio.total THEN Step(FALSE, 0)
    ELSE Step(FALSE, 1)

\* FILTRE #6 (rejection wick)
LongWick(candle) ==
    IF check_rejection_wick(candle, "bullish") THEN Step(FALSE, 2) ELSE Step(FALSE, 0)

\* FILTRE #7 (distance to the lower band)
LongBand(dist_bb_lower) ==
    IF Lt(dist_bb_lower, bb_threshold) THEN Step(FALSE, 2) ELSE Step(FALSE, 0)

\* FILTRE #8 with a missing daily record counted as a macro downtrend
LongDailyPenalised(l1d) ==
    IF l1d.present
    THEN Step(FALSE, (IF Lt(l1d.rsi, 3500) THEN 2 ELSE 0)
                     + (IF l1d.close > l1d.ema_200 THEN 1 ELSE -1))
    ELSE Step(FALSE, -1)

\* FILTRE #8 (daily confirmation)
LongDaily(l1d) ==
    IF l1d.present
    THEN Step(FALSE, (IF Lt(l1d.rsi, 3500) THEN 2 ELSE 0)
                     + (IF l1d.close > l1d.ema_200 THEN 1 ELSE -1))
    ELSE Step(FALSE, 0)

\* FILTRE #9 with `<=` for the rejection threshold
LongKnifeInclusive(closes) ==
    IF Len(closes) >= 5
    THEN LET avg_drop == AvgChangePct(SubSeq(closes, Len(closes) - 4, Len(closes)))
         IN  IF ~FracGt(avg_drop, -2) THEN Step(TRUE, 0)
             ELSE IF FracLt(avg_drop, -1) THEN Step(FALSE, -1)
             ELSE Step(FALSE, 0)
    ELSE Step(FALSE, 0)

\* FILTRE #9 (falling knife): avg_drop < -2, < -1, else
LongKnife(closes) ==
    IF Len(closes) >= 5
    THEN LET avg_drop == AvgChangePct(SubSeq(closes, Len(closes) - 4, Len(closes)))
         IN  IF FracLt(avg_drop, -2) THEN Step(TRUE, 0)
             ELSE IF FracLt(avg_drop, -1) THEN Step(FALSE, -1)
             ELSE Step(FALSE, 0)
    ELSE Step(FALSE, 0)

\* the score gate with the former minimum of 5
LongScoreGateFive(s) == IF s < 5 THEN Step(TRUE, 0) ELSE Step(FALSE, 0)

\* the score gate
LongScoreGate(s) == IF s < min_score_long THEN Step(TRUE, 0) ELSE Step(FALSE, 0)

\* the trade plan with the ratio taken to the +6 % target instead of take_profit
LongPlanPctTarget(close, bb) ==
    LET entry_price == 100 * close
        stop_loss == 97 * close
        target_pct == 106 * close
        take_profit == Min(bb, target_pct)
    IN  [entry_price |-> entry_price, stop_loss |-> stop_loss,
         bb_middle |-> bb, take_profit |-> take_profit,
         rr |-> [n |-> target_pct - entry_price, d |-> entry_price - stop_loss]]

\* the trade plan with a 5 % stop
LongPlanWideStop(close, bb) ==
    LET entry_price == 100 * close
        stop_loss == 95 * close
        target_pct == 106 * close
        take_profit == Min(bb, target_pct)
    IN  [entry_price |-> entry_price, stop_loss |-> stop_loss,
         bb_middle |-> bb, take_profit |-> take_profit,
         rr |-> [n |-> take_profit - entry_price, d |-> entry_price - stop_loss]]

\* the trade plan, in hundredths of a quantum; rr is the fraction
\* (take_profit - entry_price) / (entry_price - stop_loss)
LongPlan(close, bb) ==
    LET entry_price == 100 * close
        stop_loss == 97 * close
        target_pct == 106 * close
        take_profit == Min(bb, target_pct)
    IN  [entry_price |-> entry_price, stop_loss |-> stop_loss,
         bb_middle |-> bb, take_profit |-> take_profit,
         rr |-> [n |-> take_profit - entry_price, d |-> entry_price - stop_loss]]

\* the gate with a minimum ratio of 1
RiskRewardBelowOne(rr) == rr.n < rr.d

\* `risk_reward < 1.5` for rr = n / d with d > 0
RiskRewardTooLow(rr) == 2 * rr.n < 3 * rr.d

\* the dict _check_long_setup returns (symbol, reasons and timestamp left out)
LongSignal(s, p, rsi_4h, l1h, l1d, structure) ==
    [type |-> "LONG", timeframe |-> "4h", score |-> s,
     entry_price |-> Round8(p.entry_price),
     stop_loss |-> Round8(p.stop_loss),
     take_profit |-> Round8(p.take_profit),
     risk_reward |-> Round2(p.rr.n, p.rr.d),
     rsi_4h |-> Round1(rsi_4h),
     rsi_1h |-> IF l1h.present THEN Round1(l1h.rsi) ELSE None,
     rsi_1d |-> IF l1d.present THEN Round1(l1d.rsi) ELSE None,
     market_structure |-> structure]

----------------------------------------------------------------------------
(* The steps of _check_short_setup *)

\* FILTRE #1 (EMA 200)
ShortTrend(price, ema_200) ==
    IF price > ema_200
    THEN IF (price - ema_200) * 100 > 5 * ema_200 THEN Step(TRUE, 0)
         ELSE Step(FALSE, -2)
    ELSE Step(FALSE, 3)

\* FILTRE #2 (structure)
ShortStructure(structure) ==
    IF structure = "uptrend" THEN Step(TRUE, 0)
    ELSE IF structure = "downtrend" THEN Step(FALSE, 2)
    ELSE Step(FALSE, 1)

\* FILTRE #3 of the SHORT evaluation with the comparisons of the LONG one
ShortRsiAsLong(rsi_4h) ==
    IF Lt(rsi_4h, 7500) THEN Step(FALSE, 2)
    ELSE IF Lt(rsi_4h, rsi_overbought) THEN Step(FALSE, 1)
    ELSE Step(TRUE, 0)

\* FILTRE #3 (RSI overbought)
ShortRsi(rsi_4h) ==
    IF Gt(rsi_4h, 7500) THEN Step(FALSE, 2)
    ELSE IF Gt(rsi_4h, rsi_overbought) THEN Step(FALSE, 1)
    ELSE Step(TRUE, 0)

\* FILTRE #4 (bearish divergence)
ShortDivergence(closes, rsi_values) ==
    IF check_rsi_divergence(closes, rsi_values, "bearish") THEN Step(FALSE, 3)
    ELSE Step(FALSE, 0)

\* FILTRE #5 (directional volume): vol_ratio > 0.7, > 0.6, else
ShortVolume(vol_ratio) ==
    IF 10 * vol_ratio.up > 7 * vol_ratio.total THEN Step(FALSE, -2)
    ELSE IF 10 * vol_ratio.up > 6 * vol_ratio.total THEN Step(FALSE, 0)
    ELSE Step(FALSE, 1)

\* FILTRE #6 (rejection wick)
ShortWick(candle) ==
    IF check_rejection_wick(candle, "bearish") THEN Step(FALSE, 2) ELSE Step(FALSE, 0)

\* FILTRE #7 (distance to the upper band)
ShortBand(dist_bb_upper) ==
    IF Lt(dist_bb_upper, bb_threshold) THEN Step(FALSE, 2) ELSE Step(FALSE, 0)

\* FILTRE #8 (daily confirmation)
ShortDaily(l1d) ==
    IF l1d.present
    THEN Step(FALSE, (IF Gt(l1d.rsi, 6500) THEN 2 ELSE 0)
                     + (IF l1d.close < l1d.ema_200 THEN 1 ELSE -1))
    ELSE Step(FALSE, 0)

\* FILTRE #9 (violent rally): avg_gain > 2, > 1, else
ShortKnife(closes) ==
    IF Len(closes) >= 5
    THEN LET avg_gain == AvgChangePct(SubSeq(closes, Len(closes) - 4, Len(closes)))
         IN  IF FracGt(avg_gain, 2) THEN Step(TRUE, 0)
             ELSE IF FracGt(avg_gain, 1) THEN Step(FALSE, -1)
             ELSE Step(FALSE, 0)
    ELSE Step(FALSE, 0)

\* the score gate
ShortScoreGate(s) == IF s < min_score_short THEN Step(TRUE, 0) ELSE Step(FALSE, 0)

\* the trade plan with a target of -10 %
ShortPlanWideTarget(close, bb) ==
    LET entry_price == 100 * close
        stop_loss == 103 * close
        target_pct == 90 * close
        take_profit == Max(bb, target_pct)
    IN  [entry_price |-> entry_price, stop_loss |-> stop_loss,
         bb_middle |-> bb, take_profit |-> take_profit,
         rr |-> [n |-> entry_price - take_profit, d |-> stop_loss - entry_price]]

\* the trade plan; rr is (entry_price - take_profit) / (stop_loss - entry_price)
ShortPlan(close, bb) ==
    LET entry_price == 100 * close
        stop_loss == 103 * close
        target_pct == 94 * close
        take_profit == Max(bb, target_pct)
    IN  [entry_price |-> entry_price, stop_loss |-> stop_loss,
         bb_middle |-> bb, take_profit |-> take_profit,
         rr |-> [n |-> entry_price - take_profit, d |-> stop_loss - entry_price]]

\* the dict _check_short_setup returns
ShortSignal(s, p, rsi_4h, l1h, l1d, structure) ==
    [type |-> "SHORT", timeframe |-> "4h", score |-> s,
     entry_price |-> Round8(p.entry_price),
     stop_loss |-> Round8(p.stop_loss),
     take_profit |-> Round8(p.take_profit),
     risk_reward |-> Round2(p.rr.n, p.rr.d),
     rsi_4h |-> Round1(rsi_4h),
     rsi_1h |-> IF l1h.present THEN Round1(l1h.rsi) ELSE None,
     rsi_1d |-> IF l1d.present THEN Round1(l1d.rsi) ELSE None,
     market_structure |-> structure]

----------------------------------------------------------------------------
(* Snapshots *)

Candle(r, c, e) == [present |-> TRUE, rsi |-> r, close |-> c, ema_200 |-> e]

\* not yet read by the running detect_signals
Unread == [present |-> FALSE, rsi |-> None, ema_200 |-> 0, close |-> 0]

\* the last 10 closes: five earlier candles, then the last five, whose mean
\* change per candle is (p - 99750) / (4 x 99750)
Close10(p) == <<100250, 100250, 100250, 100250, 100250, 99750, p, p, p, p>>

\* last closes: mean change -3 %, -2 %, -1 %, -0.3 %, +1 %, +2 %, +3 % per candle
LastCloses == {87780, 91770, 95760, 98553, 103740, 107730, 111720}

\* ema_200 for a last close p: the price is 13.6 % below, 5 % below, equal,
\* 5 % above, 16.7 % above
Ema200s(p) == {(22 * p) \div 19, (20 * p) \div 19, p, (20 * p) \div 21, (18 * p) \div 21}

HlShapes == {"up", "down", "alt"}

Pattern(shape, i) ==
    IF shape = "up" THEN 10 * i
    ELSE IF shape = "down" THEN -10 * i
    ELSE 10 * (i % 2)

\* the latest candle's wicks: [above, below] the close, and its open
WickShapes ==
    {[name |-> "bull", above |-> 13000, below |-> 40000, body |-> 100],
     [name |-> "bear", above |-> 40000, below |-> 13000, body |-> -100],
     [name |-> "none", above |-> 20000, below |-> 20000, body |-> 15000]}

Rsi4hs == {2496, 2500, 3000, 7000, 7500, 7504, NaN}

Df4h(p, e, hl, w, r) ==
    [close |-> Close10(p),
     high |-> [i \in 1..10 |-> p + w.above + Pattern(hl, i)],
     low |-> [i \in 1..10 |-> p - w.below + Pattern(hl, i)],
     open |-> p - w.body,
     rsi |-> r,
     ema_200 |-> e]

\* the 10 closes before Close10: two low pivots with a lower low, two high
\* pivots with a higher high, no pivot
First10s ==
    {<<100250, 100250, 100050, 99850, 100050, 100250, 100050, 99750, 100050, 100250>>,
     <<99750, 99750, 99950, 100150, 99950, 99750, 99950, 100350, 99950, 99750>>,
     <<100250, 100250, 100250, 100250, 100250, 100250, 100250, 100250, 100250, 100250>>}

\* the 19 RSI values before the latest: rising, falling, undefined
RsiColumns ==
    {[i \in 1..19 |-> 2000 + 100 * i], [i \in 1..19 |-> 8000 - 100 * i],
     [i \in 1..19 |-> NaN]}

\* opens and volumes of the last 10 candles: of the 9 before the latest the
\* first g are green and the others red, each candle has volume v
VolumeShapes == {[g |-> g, v |-> v] : g \in 0..9, v \in {0, 10}}

Recent(df, vs) ==
    [i \in 1..10 |->
        [close |-> df.close[i],
         open |-> IF i = 10 THEN df.open
                  ELSE IF i <= vs.g THEN df.close[i] - 10 ELSE df.close[i] + 10,
         volume |-> vs.v]]

Latest4h(df) ==
    [open |-> df.open, high |-> df.high[10], low |-> df.low[10], close |-> df.close[10]]

BandDistances == {-50, 150, 200, 500}

Latest1ds ==
    {NoCandle, Candle(3000, 100, 90), Candle(3500, 100, 100), Candle(6500, 100, 100),
     Candle(7000, 90, 100)}

Latest1hs == {NoCandle, Candle(4504, 100, 100)}

\* bb_middle for a last close c, in hundredths of a quantum: far below, the two
\* values around 0.955 c, 1.05 c, the two values around 1.045 c, far above
BbMiddles(c) ==
    {70 * c, (191 * c) \div 2, (191 * c) \div 2 + 1, 105 * c,
     (209 * c + 1) \div 2 - 1, (209 * c + 1) \div 2, 130 * c}

\* what the steps draw: every value of the domains above, or for scenario C the
\* values the scenario names
Feed(sc) ==
    IF sc = "C"
    THEN [first10 |-> {<<100250, 100250, 100050, 99850, 100050, 100250, 100050,
                         99750, 100050, 100250>>},
          rsi_column |-> {[i \in 1..19 |-> 2000 + 100 * i]},
          volume |-> {[g |-> 4, v |-> 10]},
          band |-> {150},
          latest_1d |-> {Candle(3000, 100, 90)}]
    ELSE [first10 |-> First10s, rsi_column |-> RsiColumns, volume |-> VolumeShapes,
          band |-> BandDistances, latest_1d |-> Latest1ds]

\* scenario A: the closes of the last 10 candles decline, the last four by
\* 1 %, 1 %, 1/99 and 1/99; the highs, the lows, the wicks, the RSI and the
\* EMA are those of any snapshot
DecliningCloses ==
    <<104000, 103000, 102000, 101000, 100500, 100000, 99000, 98010, 97020, 96040>>

ScenarioA ==
    {[Df4h(96040, e, hl, w, r) EXCEPT !.close = DecliningCloses] :
        e \in Ema200s(96040), hl \in HlShapes, w \in WickShapes, r \in Rsi4hs}

ScenarioC == Df4h(98553, (20 * 98553) \div 21, "up", CHOOSE w \in WickShapes : w.name = "bull", 2400)

----------------------------------------------------------------------------
(* detect_signals: _check_long_setup, then _check_short_setup, step by step *)

----------------------------------------------------------------------------
(* The state of ClaudeCryptoBot *)

\* self.watchlist of __init__
Instruments == <<"BTC/USDT", "ETH/USDT", "SOL/USDT", "BNB/USDT", "XRP/USDT">>

\* the bot is followed over the first instruments of its watchlist: an
\* iteration reads and writes only the ledger keys of its own instrument
Watched(n) == SubSeq(Instruments, 1, n)

timeframes == <<"1h", "4h", "1d">>

\* the clock when the bot starts, in periods since the epoch
StartTime == 163000

\* `signal` when analyze_coin returned None, and before it is called
NoSignal ==
    [keys |-> {}, signal |-> "NOTHING", timeframe |-> "", confidence |-> 0,
     confluence_factors |-> 0]

\* self.daily_stats of __init__ and after a daily summary
EmptyStats ==
    [total_analyses |-> 0, total_signals |-> 0, long_signals |-> 0,
     short_signals |-> 0, confidences |-> <<>>, confluences |-> <<>>]

\* the keys send_claude_signal and scan_market read without a default; "entry"
\* stands for the fields only send_claude_signal reads (entry, stop_loss,
\* take_profit, risk_reward, reasoning)
AllKeys == {"signal", "confidence", "timeframe", "entry", "confluence_factors"}

\* the answers hold every key, or lack "signal", or lack one of those whose
\* absence raises
KeySets ==
    {AllKeys} \cup {AllKeys \ {k} : k \in {"signal", "confidence", "timeframe", "entry"}}

\* the timeframes the answers name
AnsweredTimeframes == {"4h"}

\* the JSON object of a response
Payloads ==
    {[keys |-> ks, signal |-> sg, timeframe |-> tf, confidence |-> 8,
      confluence_factors |-> 5] :
        ks \in KeySets, sg \in {"LONG", "SHORT", "NOTHING", "BUY"}, tf \in AnsweredTimeframes}

\* what the API call of analyze_coin does: it raises, or answers with a text
\* that is not JSON, that is JSON but no object (a list, a string), or that is
\* a JSON object
Responses ==
    {[kind |-> k, payload |-> NoSignal] : k \in {"api_error", "bad_json", "not_object"}}
    \cup {[kind |-> "json", payload |-> pl] : pl \in Payloads}

\* the timeframes an answer can name: the prompt asks for "1h", "4h" or "1d",
\* and _parse_claude_response takes whatever the text names
AnyTimeframes == {"1h", "4h", "1d", "15m"}

\* the responses of an analyst that always answers with a complete signal
SignalResponses ==
    {[kind |-> "json",
      payload |-> [keys |-> AllKeys, signal |-> sg, timeframe |-> tf, confidence |-> 8,
                   confluence_factors |-> 5]] :
        sg \in {"LONG", "SHORT"}, tf \in AnyTimeframes}

\* the bot after __init__, before the first scan, watching the first n
\* instruments and served by the analyst `answers`; Telegram takes every post
AtRest(n, answers) ==
    /\ network = "up"
    /\ deliveries = <<>>
    /\ watchlist = Watched(n)
    /\ analyst = answers
    /\ now = StartTime
    /\ scan_pc = "idle"
    /\ scans = 0
    /\ symbol_idx = 0
    /\ signal = NoSignal
    /\ sent_signals = <<>>
    /\ daily_stats = EmptyStats
    /\ notifications = <<>>

ScanAtRest == AtRest(2, "any")

\* no frame is being enriched
EngineAtRest ==
    /\ frame = [limit |-> 0, rows |-> 0, columns |-> {}, close |-> <<>>,
                rsi |-> [kind |-> "nan", n |-> 0, d |-> 1],
                ema_200 |-> [kind |-> "nan", points |-> 0]]
    /\ frame_pc = "done"

\* no helper is called on its own
NoVerdict == [bullish |-> FALSE, bearish |-> FALSE, returned |-> FALSE]

HelperAtRest ==
    /\ window = [close |-> <<>>, rsi |-> <<>>]
    /\ verdict = NoVerdict

\* no loop body is followed call by call
BodyAtRest ==
    /\ ohlcv = <<>>
    /\ response = [kind |-> "api_error", payload |-> NoSignal]
    /\ eval_pc = "done"
    /\ tf_idx = 0
    /\ attempt_no = 0
    /\ calls = <<>>
    /\ dfs = <<>>
    /\ held = {}
    /\ api_calls = 0
    /\ outcome = [state |-> "none", signal |-> NoSignal]

----------------------------------------------------------------------------
(* detect_signals *)

NoPlan == [entry_price |-> 0, stop_loss |-> 0, bb_middle |-> 0, take_profit |-> 0,
           rr |-> [n |-> 0, d |-> 1]]

Init ==
    /\ scenario \in {"any", "A", "C"}
    /\ IF scenario = "C"
       THEN df_4h = ScenarioC
       ELSE IF scenario = "A"
       THEN df_4h \in ScenarioA
       ELSE df_4h \in {Df4h(p, e, hl, w, r) :
                          p \in LastCloses, e \in UNION {Ema200s(q) : q \in LastCloses},
                          hl \in HlShapes, w \in WickShapes, r \in Rsi4hs}
            /\ df_4h.ema_200 \in Ema200s(df_4h.close[10])
    /\ latest_1d = Unread
    /\ latest_1h = Unread
    /\ bb_middle = None
    /\ pc = "L1"
    /\ score = 0
    /\ market_structure = "unset"
    /\ plan = NoPlan
    /\ signals = <<>>
    /\ ScanAtRest
    /\ BodyAtRest
    /\ EngineAtRest
    /\ HelperAtRest

\* the evaluation returns: `return None` for sig = <<>>, else the signal, which
\* detect_signals appends; `after` is where detect_signals goes on
Return(sig, after) ==
    /\ signals' = signals \o sig
    /\ pc' = after
    /\ score' = 0
    /\ market_structure' = "unset"
    /\ plan' = NoPlan

\* the outcome of a step with the score kept from falling below 0
ApplyClamped(st, next, after) ==
    IF st.veto
    THEN Return(<<>>, after)
    ELSE /\ score' = Max(0, score + st.delta)
         /\ pc' = next
         /\ UNCHANGED <<market_structure, plan, signals>>

\* the outcome of a step: return None on a veto, else add delta and go on
Apply(st, next, after) ==
    IF st.veto
    THEN Return(<<>>, after)
    ELSE /\ score' = score + st.delta
         /\ pc' = next
         /\ UNCHANGED <<market_structure, plan, signals>>

\* the daily record of the snapshot, fixed by the first step that reads it
Daily == IF latest_1d = Unread THEN Feed(scenario).latest_1d ELSE {latest_1d}

\* the hourly record of the snapshot, fixed by the first step that reads it
Hourly == IF latest_1h = Unread THEN Latest1hs ELSE {latest_1h}

\* bb_middle of the latest 4h record, fixed by the first step that reads it
BbMiddle == IF bb_middle = None THEN BbMiddles(df_4h.close[10]) ELSE {bb_middle}

Long1 ==
    /\ pc = "L1"
    /\ UNCHANGED <<scanVars, evalVars, engineVars, helperVars>>
    /\ Apply(LongTrend(df_4h.close[10], df_4h.ema_200), "L2", "S1")
    /\ UNCHANGED <<scenario, df_4h, latest_1d, latest_1h, bb_middle>>

Long2 ==
    /\ pc = "L2"
    /\ UNCHANGED <<scanVars, evalVars, engineVars, helperVars>>
    /\ LET structure == calculate_market_structure(df_4h.high, df_4h.low)
           st == LongStructure(structure)
       IN  IF st.veto
           THEN Return(<<>>, "S1")
           ELSE /\ market_structure' = structure
                /\ score' = score + st.delta
                /\ pc' = "L3"
                /\ UNCHANGED <<plan, signals>>
    /\ UNCHANGED <<scenario, df_4h, latest_1d, latest_1h, bb_middle>>

Long3 ==
    /\ pc = "L3"
    /\ UNCHANGED <<scanVars, evalVars, engineVars, helperVars>>
    /\ Apply(LongRsi(df_4h.rsi), "L4", "S1")
    /\ UNCHANGED <<scenario, df_4h, latest_1d, latest_1h, bb_middle>>

Long4 ==
    /\ pc = "L4"
    /\ UNCHANGED <<scanVars, evalVars, engineVars, helperVars>>
    /\ \E f \in Feed(scenario).first10, rc \in Feed(scenario).rsi_column :
          Apply(LongDivergence(f \o df_4h.close, rc \o <<df_4h.rsi>>), "L5", "S1")
    /\ UNCHANGED <<scenario, df_4h, latest_1d, latest_1h, bb_middle>>

Long5 ==
    /\ pc = "L5"
    /\ UNCHANGED <<scanVars, evalVars, engineVars, helperVars>>
    /\ \E vs \in Feed(scenario).volume :
          Apply(LongVolume(calculate_directional_volume(Recent(df_4h, vs))), "L6", "S1")
    /\ UNCHANGED <<scenario, df_4h, latest_1d, latest_1h, bb_middle>>

Long6 ==
    /\ pc = "L6"
    /\ UNCHANGED <<scanVars, evalVars, engineVars, helperVars>>
    /\ Apply(LongWick(Latest4h(df_4h)), "L7", "S1")
    /\ UNCHANGED <<scenario, df_4h, latest_1d, latest_1h, bb_middle>>

Long7 ==
    /\ pc = "L7"
    /\ UNCHANGED <<scanVars, evalVars, engineVars, helperVars>>
    /\ \E dist_bb_lower \in Feed(scenario).band :
          Apply(LongBand(dist_bb_lower), "L8", "S1")
    /\ UNCHANGED <<scenario, df_4h, latest_1d, latest_1h, bb_middle>>

Long8 ==
    /\ pc = "L8"
    /\ UNCHANGED <<scanVars, evalVars, engineVars, helperVars>>
    /\ \E d \in Daily :
          /\ latest_1d' = d
          /\ Apply(LongDaily(d), "L9", "S1")
    /\ UNCHANGED <<scenario, df_4h, latest_1h, bb_middle>>

Long9 ==
    /\ pc = "L9"
    /\ UNCHANGED <<scanVars, evalVars, engineVars, helperVars>>
    /\ Apply(LongKnife(df_4h.close), "L10", "S1")
    /\ UNCHANGED <<scenario, df_4h, latest_1d, latest_1h, bb_middle>>

Long10 ==
    /\ pc = "L10"
    /\ UNCHANGED <<scanVars, evalVars, engineVars, helperVars>>
    /\ Apply(LongScoreGate(score), "L11", "S1")
    /\ UNCHANGED <<scenario, df_4h, latest_1d, latest_1h, bb_middle>>

Long11 ==
    /\ pc = "L11"
    /\ UNCHANGED <<scanVars, evalVars, engineVars, helperVars>>
    /\ \E bb \in BbMiddle :
          /\ bb_middle' = bb
          /\ plan' = LongPlan(df_4h.close[10], bb)
    /\ pc' = "L12"
    /\ UNCHANGED <<scenario, df_4h, latest_1d, latest_1h, score, market_structure, signals>>

Long12 ==
    /\ pc = "L12"
    /\ UNCHANGED <<scanVars, evalVars, engineVars, helperVars>>
    /\ IF RiskRewardTooLow(plan.rr)
       THEN Return(<<>>, "S1") /\ UNCHANGED latest_1h
       ELSE \E l1h \in Hourly :
               /\ latest_1h' = l1h
               /\ Return(<<LongSignal(score, plan, df_4h.rsi, l1h, latest_1d,
                                      market_structure)>>, "S1")
    /\ UNCHANGED <<scenario, df_4h, latest_1d, bb_middle>>

Short1 ==
    /\ pc = "S1"
    /\ UNCHANGED <<scanVars, evalVars, engineVars, helperVars>>
    /\ Apply(ShortTrend(df_4h.close[10], df_4h.ema_200), "S2", "done")
    /\ UNCHANGED <<scenario, df_4h, latest_1d, latest_1h, bb_middle>>

Short2 ==
    /\ pc = "S2"
    /\ UNCHANGED <<scanVars, evalVars, engineVars, helperVars>>
    /\ LET structure == calculate_market_structure(df_4h.high, df_4h.low)
           st == ShortStructure(structure)
       IN  IF st.veto
           THEN Return(<<>>, "done")
           ELSE /\ market_structure' = structure
                /\ score' = score + st.delta
                /\ pc' = "S3"
                /\ UNCHANGED <<plan, signals>>
    /\ UNCHANGED <<scenario, df_4h, latest_1d, latest_1h, bb_middle>>

Short3 ==
    /\ pc = "S3"
    /\ UNCHANGED <<scanVars, evalVars, engineVars, helperVars>>
    /\ Apply(ShortRsi(df_4h.rsi), "S4", "done")
    /\ UNCHANGED <<scenario, df_4h, latest_1d, latest_1h, bb_middle>>

Short4 ==
    /\ pc = "S4"
    /\ UNCHANGED <<scanVars, evalVars, engineVars, helperVars>>
    /\ \E f \in Feed(scenario).first10, rc \in Feed(scenario).rsi_column :
          Apply(ShortDivergence(f \o df_4h.close, rc \o <<df_4h.rsi>>), "S5", "done")
    /\ UNCHANGED <<scenario, df_4h, latest_1d, latest_1h, bb_middle>>

Short5 ==
    /\ pc = "S5"
    /\ UNCHANGED <<scanVars, evalVars, engineVars, helperVars>>
    /\ \E vs \in Feed(scenario).volume :
          Apply(ShortVolume(calculate_directional_volume(Recent(df_4h, vs))), "S6", "done")
    /\ UNCHANGED <<scenario, df_4h, latest_1d, latest_1h, bb_middle>>

Short6 ==
    /\ pc = "S6"
    /\ UNCHANGED <<scanVars, evalVars, engineVars, helperVars>>
    /\ Apply(ShortWick(Latest4h(df_4h)), "S7", "done")
    /\ UNCHANGED <<scenario, df_4h, latest_1d, latest_1h, bb_middle>>

Short7 ==
    /\ pc = "S7"
    /\ UNCHANGED <<scanVars, evalVars, engineVars, helperVars>>
    /\ \E dist_bb_upper \in Feed(scenario).band :
          Apply(ShortBand(dist_bb_upper), "S8", "done")
    /\ UNCHANGED <<scenario, df_4h, latest_1d, latest_1h, bb_middle>>

Short8 ==
    /\ pc = "S8"
    /\ UNCHANGED <<scanVars, evalVars, engineVars, helperVars>>
    /\ \E d \in Daily :
          /\ latest_1d' = d
          /\ Apply(ShortDaily(d), "S9", "done")
    /\ UNCHANGED <<scenario, df_4h, latest_1h, bb_middle>>

Short9 ==
    /\ pc = "S9"
    /\ UNCHANGED <<scanVars, evalVars, engineVars, helperVars>>
    /\ Apply(ShortKnife(df_4h.close), "S10", "done")
    /\ UNCHANGED <<scenario, df_4h, latest_1d, latest_1h, bb_middle>>

Short10 ==
    /\ pc = "S10"
    /\ UNCHANGED <<scanVars, evalVars, engineVars, helperVars>>
    /\ Apply(ShortScoreGate(score), "S11", "done")
    /\ UNCHANGED <<scenario, df_4h, latest_1d, latest_1h, bb_middle>>

Short11 ==
    /\ pc = "S11"
    /\ UNCHANGED <<scanVars, evalVars, engineVars, helperVars>>
    /\ \E bb \in BbMiddle :
          /\ bb_middle' = bb
          /\ plan' = ShortPlan(df_4h.close[10], bb)
    /\ pc' = "S12"
    /\ UNCHANGED <<scenario, df_4h, latest_1d, latest_1h, score, market_structure, signals>>

Short12 ==
    /\ pc = "S12"
    /\ UNCHANGED <<scanVars, evalVars, engineVars, helperVars>>
    /\ IF RiskRewardTooLow(plan.rr)
       THEN Return(<<>>, "done") /\ UNCHANGED latest_1h
       ELSE \E l1h \in Hourly :
               /\ latest_1h' = l1h
               /\ Return(<<ShortSignal(score, plan, df_4h.rsi, l1h, latest_1d,
                                       market_structure)>>, "done")
    /\ UNCHANGED <<scenario, df_4h, latest_1d, bb_middle>>

Next ==
    \/ Long1 \/ Long2 \/ Long3 \/ Long4 \/ Long5 \/ Long6
    \/ Long7 \/ Long8 \/ Long9 \/ Long10 \/ Long11 \/ Long12
    \/ Short1 \/ Short2 \/ Short3 \/ Short4 \/ Short5 \/ Short6
    \/ Short7 \/ Short8 \/ Short9 \/ Short10 \/ Short11 \/ Short12

Spec == Init /\ [][Next]_vars

----------------------------------------------------------------------------
(* _calculate_market_structure on its own *)

\* the changes from one candle to the next over a window of 10: three runs of
\* x, y and 9 - x - y changes of a, b and c
Changes(a, b, c, x, y) == [i \in 1..9 |-> IF i <= x THEN a ELSE IF i <= x + y THEN b ELSE c]

\* the changes that alternate, starting with d
Alternating(d) == [i \in 1..9 |-> IF i % 2 = 1 THEN d ELSE -d]

ChangeSeqs ==
    {Changes(a, b, c, x, y) :
        a \in {-1, 0, 1}, b \in {-1, 0, 1}, c \in {-1, 0, 1},
        x \in 0..9, y \in 0..9}
    \cup {Alternating(1), Alternating(-1)}

\* the 10 values that start at `start` and change by 10 quanta times `changes`
RECURSIVE Walk(_, _)
Walk(start, changes) ==
    IF changes = <<>> THEN <<start>>
    ELSE <<start>> \o Walk(start + 10 * Head(changes), Tail(changes))

\* a 4h series of which only the highs and lows of the last 10 candles matter
InitStructure ==
    /\ scenario = "any"
    /\ \E hs \in ChangeSeqs, ls \in ChangeSeqs :
          df_4h = [ScenarioC EXCEPT !.high = Walk(120000, hs), !.low = Walk(80000, ls)]
    /\ latest_1d = Unread
    /\ latest_1h = Unread
    /\ bb_middle = None
    /\ pc = "structure"
    /\ score = 0
    /\ market_structure = "unset"
    /\ plan = NoPlan
    /\ signals = <<>>
    /\ ScanAtRest
    /\ BodyAtRest
    /\ EngineAtRest
    /\ HelperAtRest

MarketStructure ==
    /\ pc = "structure"
    /\ market_structure' = calculate_market_structure(df_4h.high, df_4h.low)
    /\ pc' = "done"
    /\ UNCHANGED <<scenario, df_4h, latest_1d, latest_1h, bb_middle, score, plan, signals>>
    /\ UNCHANGED <<scanVars, evalVars, engineVars, helperVars>>

NextStructure == MarketStructure

SpecStructure == InitStructure /\ [][NextStructure]_vars

----------------------------------------------------------------------------
(* scan_market, run by the scheduling loop of start *)

\* the scans the scheduling loop starts and the periods the clock runs
MaxScans == 2
MaxPeriods == 3
\* the scans of a bot that watches a single instrument
MaxSoloScans == 7

\* the scans of a bot whose posts can fail
MaxDeliveryScans == 3

ScanLimit ==
    IF network # "up" THEN MaxDeliveryScans
    ELSE IF Len(watchlist) = 1 THEN MaxSoloScans
    ELSE MaxScans

max_retries == 3
MinCandles == 200
\* 6 * 3600 seconds, in periods
Cooldown == 2

\* one call of exchange.fetch_ohlcv with calculate_indicators: it raises, or
\* yields a series of `candles` rows
Raises == [raises |-> TRUE, candles |-> 0]
Candles(n) == [raises |-> FALSE, candles |-> n]
NoDf == [present |-> FALSE, candles |-> 0]

\* what the exchange does on the attempts of one fetch_data call
Exchanges ==
    {<<Candles(500), Raises, Raises>>, <<Candles(200), Raises, Raises>>,
     <<Candles(199), Candles(500), Candles(500)>>, <<Raises, Candles(500), Raises>>,
     <<Raises, Raises, Candles(200)>>, <<Raises, Raises, Raises>>}

\* fetch_data from attempt `attempt` on: the series of the first attempt that
\* does not raise, None after max_retries failures
RECURSIVE fetch_data(_, _)
fetch_data(exchange, attempt) ==
    IF attempt >= max_retries THEN NoDf
    ELSE IF ~exchange[attempt + 1].raises
         THEN [present |-> TRUE, candles |-> exchange[attempt + 1].candles]
         ELSE fetch_data(exchange, attempt + 1)

\* signal_data.get('signal')
GetSignal(signal_data) ==
    IF "signal" \in signal_data.keys THEN signal_data.signal ELSE "None"

Returns(value) == [raises |-> "", value |-> value]
RaisesError(exception) == [raises |-> exception, value |-> NoSignal]

\* the body without the test `not in ['LONG', 'SHORT']`
parse_body_any(response_) ==
    IF response_.kind = "bad_json" THEN RaisesError("JSONDecodeError")
    ELSE IF response_.kind = "not_object" THEN RaisesError("AttributeError")
    ELSE IF GetSignal(response_.payload) = "NOTHING" THEN Returns(NoSignal)
    ELSE Returns(response_.payload)

\* the body of the try of _parse_claude_response: json.loads raises
\* JSONDecodeError on a text that is not JSON, .get raises AttributeError on a
\* value that is no object
parse_body(response_) ==
    IF response_.kind = "bad_json" THEN RaisesError("JSONDecodeError")
    ELSE IF response_.kind = "not_object" THEN RaisesError("AttributeError")
    ELSE IF GetSignal(response_.payload) = "NOTHING" THEN Returns(NoSignal)
    ELSE IF GetSignal(response_.payload) \notin {"LONG", "SHORT"} THEN Returns(NoSignal)
    ELSE Returns(response_.payload)

\* _parse_claude_response: the body, `except json.JSONDecodeError` and
\* `except Exception`, which both return None
parse_claude_response(response_) ==
    LET body == parse_body(response_)
    IN  IF body.raises = "JSONDecodeError" THEN NoSignal
        ELSE IF body.raises # "" THEN NoSignal
        ELSE body.value

\* analyze_coin: what the API call raises is caught and gives None
analyze_coin(response_) ==
    IF response_.kind = "api_error" THEN NoSignal ELSE parse_claude_response(response_)

\* f"{symbol}_{signal['signal']}_{signal['timeframe']}": no watchlist symbol and
\* no direction holds an underscore, so the string determines the three parts
signal_key(symbol, sig) == <<symbol, sig.signal, sig.timeframe>>

\* dict.get(key, default)
Get(dict, key, default) == IF key \in DOMAIN dict THEN dict[key] ELSE default

\* `time.time() - last_sent >= 6 * 3600`
cooldown_over_inclusive(time, last_sent) == time - last_sent >= Cooldown

\* `time.time() - last_sent > 6 * 3600`
cooldown_over(time, last_sent) == time - last_sent > Cooldown

\* the timeframes `data` holds after the fetch loop: those whose fetch_data
\* returned a series of at least 200 candles
FetchLoop(exchange) ==
    {tf \in {timeframes[i] : i \in 1..Len(timeframes)} :
        LET df == fetch_data(exchange[tf], 0)
        IN  df.present /\ df.candles >= MinCandles}

\* `if '4h' in data and '1d' in data`
complete_data(data_) == "4h" \in data_ /\ "1d" \in data_

\* every `data` the fetch loop can end with
Fetched == {FetchLoop(exchange) : exchange \in [{"1h", "4h", "1d"} -> Exchanges]}

\* every value analyze_coin can return, with any response and with the
\* responses of an analyst that always answers with a complete signal
AnyAnalyses == {analyze_coin(response_) : response_ \in Responses}
SignalAnalyses == {analyze_coin(response_) : response_ \in SignalResponses}

Analyses == IF analyst = "signals" THEN SignalAnalyses ELSE AnyAnalyses

\* the statistics with only the LONG signals counted by direction
RecordSignalLongOnly(stats, sig) ==
    [stats EXCEPT
       !.total_signals = @ + 1,
       !.long_signals = IF sig.signal = "LONG" THEN @ + 1 ELSE @,
       !.confidences = Append(@, sig.confidence),
       !.confluences =
           Append(@, IF "confluence_factors" \in sig.keys
                     THEN sig.confluence_factors ELSE 0)]

\* the statistics after a detected signal
RecordSignal(stats, sig) ==
    [stats EXCEPT
       !.total_signals = @ + 1,
       !.long_signals = IF sig.signal = "LONG" THEN @ + 1 ELSE @,
       !.short_signals = IF sig.signal = "LONG" THEN @ ELSE @ + 1,
       !.confidences = Append(@, sig.confidence),
       !.confluences =
           Append(@, IF "confluence_factors" \in sig.keys
                     THEN sig.confluence_factors ELSE 0)]

\* the iteration ends (`continue`, or the end of the loop body): on to the next
\* symbol, or back to the scheduling loop after the last one
Continue ==
    /\ signal' = NoSignal
    /\ IF symbol_idx < Len(watchlist)
       THEN symbol_idx' = symbol_idx + 1 /\ scan_pc' = "symbol"
       ELSE symbol_idx' = 0 /\ scan_pc' = "idle"

\* an exception that leaves the loop: it ends scan_market, and the handler of
\* run_scheduled_scan swallows it
Propagated ==
    /\ signal' = NoSignal
    /\ symbol_idx' = 0
    /\ scan_pc' = "idle"

\* `except Exception as e: ... continue`: an exception raised in the body of
\* the loop ends the iteration of the symbol
Caught == Continue

\* run_scheduled_scan is due: scan_market starts on the first symbol
StartScan ==
    /\ scan_pc = "idle"
    /\ scans < ScanLimit
    /\ scans' = scans + 1
    /\ symbol_idx' = 1
    /\ scan_pc' = "symbol"
    /\ UNCHANGED <<now, signal, sent_signals, daily_stats, notifications>>
    /\ UNCHANGED <<watchlist, analyst, network, deliveries>>
    /\ UNCHANGED <<scorerVars, evalVars, engineVars, helperVars>>

\* the loop body with the cooldown measured from the last detection: a
\* suppressed signal renews the ledger entry of its key
EvaluateSymbolRestamping ==
    /\ scan_pc = "symbol"
    /\ \E data \in Fetched :
          IF ~complete_data(data)
          THEN Continue /\ UNCHANGED daily_stats
          ELSE \E sig \in Analyses :
                  LET analysed == [daily_stats EXCEPT !.total_analyses = @ + 1]
                      signal_key_ == signal_key(watchlist[symbol_idx], sig)
                      last_sent == Get(sent_signals, signal_key_, 0)
                  IN  IF sig = NoSignal
                      THEN daily_stats' = analysed /\ Continue
                      ELSE IF "confidence" \notin sig.keys
                      THEN daily_stats' = analysed /\ Caught
                      ELSE /\ daily_stats' = RecordSignal(analysed, sig)
                           /\ IF "timeframe" \notin sig.keys
                              THEN Caught
                              ELSE IF cooldown_over(now, last_sent)
                              THEN /\ signal' = sig
                                   /\ scan_pc' = "send"
                                   /\ UNCHANGED symbol_idx
                              ELSE Continue
    /\ sent_signals' =
          IF scan_pc' # "send" /\ daily_stats'.total_signals # daily_stats.total_signals
          THEN [k \in DOMAIN sent_signals |-> now]
          ELSE sent_signals
    /\ UNCHANGED <<now, scans, notifications>>
    /\ UNCHANGED <<watchlist, analyst, network, deliveries>>
    /\ UNCHANGED <<scorerVars, evalVars, engineVars, helperVars>>

\* the body of the loop for one symbol, up to the cooldown test: the fetch loop,
\* the test for complete data, the analysis, the statistics, the key and the
\* ledger lookup.  A KeyError on signal['confidence'] (in the print before the
\* statistics) or on signal['timeframe'] (in the key) ends the iteration.
EvaluateSymbol ==
    /\ scan_pc = "symbol"
    /\ \E data \in Fetched :
          IF ~complete_data(data)
          THEN Continue /\ UNCHANGED daily_stats
          ELSE \E sig \in Analyses :
                  LET analysed == [daily_stats EXCEPT !.total_analyses = @ + 1]
                      signal_key_ == signal_key(watchlist[symbol_idx], sig)
                      last_sent == Get(sent_signals, signal_key_, 0)
                  IN  IF sig = NoSignal
                      THEN daily_stats' = analysed /\ Continue
                      ELSE IF "confidence" \notin sig.keys
                      THEN daily_stats' = analysed /\ Caught
                      ELSE /\ daily_stats' = RecordSignal(analysed, sig)
                           /\ IF "timeframe" \notin sig.keys
                              THEN Caught
                              ELSE IF cooldown_over(now, last_sent)
                              THEN /\ signal' = sig
                                   /\ scan_pc' = "send"
                                   /\ UNCHANGED symbol_idx
                              ELSE Continue
    /\ UNCHANGED <<now, scans, sent_signals, notifications>>
    /\ UNCHANGED <<watchlist, analyst, network, deliveries>>
    /\ UNCHANGED <<scorerVars, evalVars, engineVars, helperVars>>

\* send_message: without token or chat id it returns at once; else it posts,
\* and the answer is 200, or another status, or requests.post raises, which the
\* handler swallows.  The caller sees none of it.
send_message(network_) ==
    IF network_ = "unconfigured" THEN {"unconfigured"}
    ELSE IF network_ = "up" THEN {"200"}
    ELSE {"200", "http_error", "exception"}

\* send_claude_signal: it raises on a key it cannot read, which ends the
\* iteration; else send_message posts the text, and swallows a failed delivery
SendClaudeSignal ==
    /\ scan_pc = "send"
    /\ IF "entry" \notin signal.keys
       THEN Caught /\ UNCHANGED <<notifications, deliveries>>
       ELSE LET key == signal_key(watchlist[symbol_idx], signal)
            IN  /\ notifications' =
                      [k \in DOMAIN notifications \cup {key} |->
                         IF k = key THEN Append(Get(notifications, key, <<>>), now)
                         ELSE notifications[k]]
                /\ \E delivery \in send_message(network) :
                      deliveries' =
                         [k \in DOMAIN deliveries \cup {key} |->
                            IF k = key THEN Append(Get(deliveries, key, <<>>), delivery)
                            ELSE deliveries[k]]
                /\ scan_pc' = "stamp"
                /\ UNCHANGED <<symbol_idx, signal>>
    /\ UNCHANGED <<now, scans, sent_signals, daily_stats>>
    /\ UNCHANGED <<watchlist, analyst, network>>
    /\ UNCHANGED <<scorerVars, evalVars, engineVars, helperVars>>

\* the stamp made only for a message that Telegram took
StampLedgerIfDelivered ==
    /\ scan_pc = "stamp"
    /\ LET key == signal_key(watchlist[symbol_idx], signal)
       IN  sent_signals' =
              IF deliveries[key][Len(deliveries[key])] = "200"
              THEN [k \in DOMAIN sent_signals \cup {key} |->
                      IF k = key THEN now ELSE sent_signals[k]]
              ELSE sent_signals
    /\ Continue
    /\ UNCHANGED <<now, scans, daily_stats, notifications>>
    /\ UNCHANGED <<watchlist, analyst, network, deliveries>>
    /\ UNCHANGED <<scorerVars, evalVars, engineVars, helperVars>>

\* self.sent_signals[signal_key] = time.time()
StampLedger ==
    /\ scan_pc = "stamp"
    /\ sent_signals' =
          LET key == signal_key(watchlist[symbol_idx], signal)
          IN  [k \in DOMAIN sent_signals \cup {key} |->
                 IF k = key THEN now ELSE sent_signals[k]]
    /\ Continue
    /\ UNCHANGED <<now, scans, daily_stats, notifications>>
    /\ UNCHANGED <<watchlist, analyst, network, deliveries>>
    /\ UNCHANGED <<scorerVars, evalVars, engineVars, helperVars>>

\* send_daily_summary is due: the summary is sent and the statistics reset
DailySummary ==
    /\ scan_pc = "idle"
    /\ daily_stats' = EmptyStats
    /\ UNCHANGED <<now, scan_pc, scans, symbol_idx, signal, sent_signals, notifications>>
    /\ UNCHANGED <<watchlist, analyst, network, deliveries>>
    /\ UNCHANGED <<scorerVars, evalVars, engineVars, helperVars>>

\* the clock moves on by one period, during a scan or between two
Tick ==
    /\ now < StartTime + MaxPeriods
    /\ now' = now + 1
    /\ UNCHANGED <<scan_pc, scans, symbol_idx, signal, sent_signals, daily_stats,
                   notifications>>
    /\ UNCHANGED <<watchlist, analyst, network, deliveries>>
    /\ UNCHANGED <<scorerVars, evalVars, engineVars, helperVars>>

\* detect_signals is not called by the bot: the scorer is at rest
ScorerAtRest ==
    /\ scenario = "C"
    /\ df_4h = ScenarioC
    /\ latest_1d = Unread
    /\ latest_1h = Unread
    /\ bb_middle = None
    /\ pc = "done"
    /\ score = 0
    /\ market_structure = "unset"
    /\ plan = NoPlan
    /\ signals = <<>>

InitScan == ScorerAtRest /\ ScanAtRest /\ BodyAtRest /\ EngineAtRest /\ HelperAtRest

NextScan ==
    \/ StartScan \/ EvaluateSymbol \/ SendClaudeSignal \/ StampLedger
    \/ DailySummary \/ Tick

SpecScan == InitScan /\ [][NextScan]_vars

\* the scans of one period, half an hour apart, of a bot that watches one
\* instrument and whose analyst answers every analysis with a signal
InitKeys == ScorerAtRest /\ AtRest(1, "signals") /\ BodyAtRest /\ EngineAtRest /\ HelperAtRest

NextKeys == StartScan \/ EvaluateSymbol \/ SendClaudeSignal \/ StampLedger

SpecKeys == InitKeys /\ [][NextKeys]_vars

\* a one-instrument bot whose posts can fail, or that has no token
InitDelivery ==
    /\ ScorerAtRest
    /\ BodyAtRest
    /\ EngineAtRest
    /\ HelperAtRest
    /\ network \in {"any", "unconfigured"}
    /\ deliveries = <<>>
    /\ watchlist = Watched(1)
    /\ analyst = "any"
    /\ now = StartTime
    /\ scan_pc = "idle"
    /\ scans = 0
    /\ symbol_idx = 0
    /\ signal = NoSignal
    /\ sent_signals = <<>>
    /\ daily_stats = EmptyStats
    /\ notifications = <<>>

NextDelivery == StartScan \/ EvaluateSymbol \/ SendClaudeSignal \/ StampLedger \/ Tick

SpecDelivery == InitDelivery /\ [][NextDelivery]_vars

----------------------------------------------------------------------------
(* The loop body of scan_market for one symbol, call by call *)

TimeframeSet == {timeframes[i] : i \in 1..Len(timeframes)}

\* fetch_data has not returned yet
Pending == [present |-> FALSE, candles |-> -1]

InitBody ==
    /\ ScorerAtRest
    /\ ScanAtRest
    /\ EngineAtRest
    /\ HelperAtRest
    /\ ohlcv \in [TimeframeSet -> Exchanges]
    /\ response \in Responses
    /\ eval_pc = "fetch"
    /\ tf_idx = 1
    /\ attempt_no = 0
    /\ calls = [tf \in TimeframeSet |-> 0]
    /\ dfs = [tf \in TimeframeSet |-> Pending]
    /\ held = {}
    /\ api_calls = 0
    /\ outcome = [state |-> "running", signal |-> NoSignal]

\* `if attempt < max_retries - 2`
may_retry_once(attempt_) == attempt_ < max_retries - 2

\* `if attempt < max_retries - 1`: the failed attempt is followed by another
may_retry(attempt_) == attempt_ < max_retries - 1

\* `if df is not None and len(df) >= 200`
keeps(df) == df.present /\ df.candles >= MinCandles

\* fetch_data returns df to the fetch loop, which keeps it in `data` if it is
\* long enough and goes on to the next timeframe, or to the test of `data`
FetchReturns(tf, df) ==
    /\ dfs' = [dfs EXCEPT ![tf] = df]
    /\ held' = IF keeps(df) THEN held \cup {tf} ELSE held
    /\ attempt_no' = 0
    /\ IF tf_idx < Len(timeframes)
       THEN tf_idx' = tf_idx + 1 /\ eval_pc' = "fetch"
       ELSE tf_idx' = tf_idx /\ eval_pc' = "test"

\* one pass of the retry loop of fetch_data: the call of fetch_ohlcv with
\* calculate_indicators, and the handler of what it raises
FetchAttempt ==
    /\ eval_pc = "fetch"
    /\ LET tf == timeframes[tf_idx]
           call == ohlcv[tf][attempt_no + 1]
       IN  /\ calls' = [calls EXCEPT ![tf] = @ + 1]
           /\ IF ~call.raises
              THEN FetchReturns(tf, [present |-> TRUE, candles |-> call.candles])
              ELSE IF may_retry(attempt_no) /\ attempt_no + 1 < max_retries
                   THEN /\ attempt_no' = attempt_no + 1
                        /\ UNCHANGED <<tf_idx, eval_pc, dfs, held>>
                   ELSE FetchReturns(tf, NoDf)
    /\ UNCHANGED <<ohlcv, response, api_calls, outcome>>
    /\ UNCHANGED <<scorerVars, scanVars, engineVars, helperVars>>

\* the test for complete data: the symbol is analysed, or reported as
\* "Données insuffisantes"
TestData ==
    /\ eval_pc = "test"
    /\ IF complete_data(held)
       THEN eval_pc' = "analyze" /\ outcome' = [outcome EXCEPT !.state = "analysed"]
       ELSE eval_pc' = "done" /\ outcome' = [outcome EXCEPT !.state = "insufficient"]
    /\ UNCHANGED <<ohlcv, response, tf_idx, attempt_no, calls, dfs, held, api_calls>>
    /\ UNCHANGED <<scorerVars, scanVars, engineVars, helperVars>>

\* analyze_coin: the API call and the parsing of what it answers
AnalyzeCoin ==
    /\ eval_pc = "analyze"
    /\ api_calls' = api_calls + 1
    /\ outcome' = [outcome EXCEPT !.signal = analyze_coin(response)]
    /\ eval_pc' = "done"
    /\ UNCHANGED <<ohlcv, response, tf_idx, attempt_no, calls, dfs, held>>
    /\ UNCHANGED <<scorerVars, scanVars, engineVars, helperVars>>

NextBody == FetchAttempt \/ TestData \/ AnalyzeCoin

SpecBody == InitBody /\ [][NextBody]_vars

----------------------------------------------------------------------------
(* _check_rsi_divergence on its own *)

\* the lengths of the series: tail(20) is the whole series when it is shorter
WindowLengths == {8, 9, 10, 20}

\* a flat window of n closes and RSI values, but for records p1 and p2, which
\* are v1 and v2 hundred quanta off the level with RSIs r1 and r2, and for
\* record 16, v3 hundred quanta off when v3 is not 0
DivergenceWindow(n, p1, v1, r1, p2, v2, r2, v3) ==
    [close |-> [i \in 1..n |->
                  100000 + 100 * (IF i = 16 /\ v3 # 0 THEN v3
                                  ELSE IF i = p1 THEN v1
                                  ELSE IF i = p2 THEN v2
                                  ELSE 0)],
     rsi |-> [i \in 1..n |-> IF i = p1 THEN r1 ELSE IF i = p2 THEN r2 ELSE 5000]]

InitDivergence ==
    /\ ScorerAtRest
    /\ ScanAtRest
    /\ BodyAtRest
    /\ EngineAtRest
    /\ \E n \in WindowLengths, p1 \in 1..20, p2 \in 1..20 :
          /\ p1 < p2
          /\ p2 <= n
          /\ \E v1 \in -2..2, v2 \in -2..2, r1 \in {4000, 6000, NaN},
                r2 \in {4000, 6000, NaN}, v3 \in {-3, 0, 3} :
                /\ n < 20 => v3 = 0
                /\ window = DivergenceWindow(n, p1, v1, r1, p2, v2, r2, v3)
    /\ verdict = NoVerdict

\* the two calls the evaluations make, at step 4 of each
CheckRsiDivergence ==
    /\ ~verdict.returned
    /\ Len(window.close) > 0
    /\ verdict' = [bullish |-> check_rsi_divergence(window.close, window.rsi, "bullish"),
                   bearish |-> check_rsi_divergence(window.close, window.rsi, "bearish"),
                   returned |-> TRUE]
    /\ UNCHANGED window
    /\ UNCHANGED <<scorerVars, scanVars, evalVars, engineVars>>

NextDivergence == CheckRsiDivergence

SpecDivergence == InitDivergence /\ [][NextDivergence]_vars

----------------------------------------------------------------------------
(* _check_rejection_wick on its own *)

\* the prices of the candles, in quanta above a level
MaxWickPrice == 8

\* every candle on the grid: low <= open, close <= high
WickCandles ==
    {c \in [open : 0..MaxWickPrice, high : 0..MaxWickPrice, low : 0..MaxWickPrice,
            close : 0..MaxWickPrice] :
        /\ c.low <= c.open /\ c.low <= c.close
        /\ c.open <= c.high /\ c.close <= c.high}

InitWick ==
    /\ ScorerAtRest
    /\ ScanAtRest
    /\ BodyAtRest
    /\ EngineAtRest
    /\ window \in WickCandles
    /\ verdict = NoVerdict

\* the two calls the evaluations make, at step 6 of each
CheckRejectionWick ==
    /\ ~verdict.returned
    /\ "open" \in DOMAIN window
    /\ verdict' = [bullish |-> check_rejection_wick(window, "bullish"),
                   bearish |-> check_rejection_wick(window, "bearish"),
                   returned |-> TRUE]
    /\ UNCHANGED window
    /\ UNCHANGED <<scorerVars, scanVars, evalVars, engineVars>>

NextWick == CheckRejectionWick

SpecWick == InitWick /\ [][NextWick]_vars

----------------------------------------------------------------------------
(* calculate_indicators on the frame fetch_data builds *)

\* a float64 that is a number n / d, +inf or NaN
Num(n, d) == [kind |-> "num", n |-> Frac(n, d).n, d |-> Frac(n, d).d]
Inf == [kind |-> "inf", n |-> 0, d |-> 1]
NotANumber == [kind |-> "nan", n |-> 0, d |-> 1]

\* x / y for x, y >= 0: a division by zero raises nothing, it gives inf, or
\* NaN for 0 / 0
FloatDiv(x, y) ==
    IF y = 0 THEN (IF x = 0 THEN NotANumber ELSE Inf) ELSE Num(x, y)

\* 100 - (100 / (1 + rs)) for rs >= 0
RsiOf(rs) ==
    IF rs.kind = "nan" THEN NotANumber
    ELSE IF rs.kind = "inf" THEN Num(100, 1)
    ELSE Num(100 * (rs.n + rs.d) - 100 * rs.d, rs.n + rs.d)

RECURSIVE SumOver(_, _)
SumOver(f, n) == IF n = 0 THEN 0 ELSE f[n] + SumOver(f, n - 1)

\* the sums of the gains and of the losses over the 14 changes of the last 15
\* closes; the rolling means are these sums over 14
Gains(closes) ==
    SumOver([i \in 1..14 |-> IF closes[i+1] - closes[i] > 0 THEN closes[i+1] - closes[i] ELSE 0], 14)
Losses(closes) ==
    SumOver([i \in 1..14 |-> IF closes[i+1] - closes[i] < 0 THEN closes[i] - closes[i+1] ELSE 0], 14)

\* df['rsi'] of the last row
Rsi(closes) == RsiOf(FloatDiv(Gains(closes), Losses(closes)))

\* the columns fetch_data names, and those calculate_indicators adds
OhlcvColumns == {"timestamp", "open", "high", "low", "close", "volume"}
IndicatorColumns == {"rsi", "ema_9", "ema_18", "ema_200", "bb_upper", "bb_middle", "bb_lower"}

\* the 14 changes from one close to the next: three runs of x, y and
\* 14 - x - y changes of a, b and c
CloseChanges ==
    {[i \in 1..14 |-> IF i <= x THEN a ELSE IF i <= x + y THEN b ELSE c] :
        a \in {-2, 0, 1}, b \in {-1, 0, 3}, c \in {-1, 0, 1}, x \in 0..14, y \in 0..14}

\* `limit` of fetch_data, and the limit get_market_context passes
default_limit == 500
context_limit == 30
\* `len(df_btc) < 10`
MinContextCandles == 10

\* the lengths of the frames: the exchange returns at most `limit` candles
FrameRows == {5, 9, 10, 14, 30, 199, 200, 500}

\* df['rsi'] of the last row of a frame of `rows` rows.  The change of the
\* first row is NaN and counts as 0 in both `where`, so a window of 14 rows is
\* full from the 14th row on.
RsiLast(closes, rows) ==
    IF rows >= 15 THEN Rsi(closes)
    ELSE IF rows = 14 THEN Rsi(<<closes[1]>> \o closes)
    ELSE NotANumber

\* ewm(span=..., adjust=False).mean() is called without min_periods, which is
\* then 0: one observation is enough for a value
ewm_min_periods == 0

\* the last value of df['close'].ewm(span=span, adjust=False).mean() on a frame
\* of `rows` rows: a number computed from all the rows there are, or NaN
ewm_mean(rows, span) ==
    IF rows >= ewm_min_periods /\ rows >= 1
    THEN [kind |-> "num", points |-> rows]
    ELSE [kind |-> "nan", points |-> rows]

InitEngine ==
    /\ ScorerAtRest
    /\ ScanAtRest
    /\ BodyAtRest
    /\ HelperAtRest
    /\ \E changes \in CloseChanges, limit \in {context_limit, default_limit},
          rows \in FrameRows :
          /\ rows <= limit
          /\ frame = [limit |-> limit, rows |-> rows, columns |-> OhlcvColumns,
                      close |-> SubSeq(Walk(100000, changes), 1, Min(rows, 15)),
                      rsi |-> NotANumber,
                      ema_200 |-> [kind |-> "nan", points |-> 0]]
    /\ frame_pc = "ohlcv"

CalculateIndicators ==
    /\ frame_pc = "ohlcv"
    /\ frame' = [frame EXCEPT !.columns = @ \cup IndicatorColumns,
                              !.rsi = RsiLast(frame.close, frame.rows),
                              !.ema_200 = ewm_mean(frame.rows, 200)]
    /\ frame_pc' = "done"
    /\ UNCHANGED <<scorerVars, scanVars, evalVars, helperVars>>

\* get_market_context on the frame its fetch_data('BTC/USDT', '1d', limit=30)
\* returned: too short a frame gives "Contexte marché indisponible", else the
\* trend is computed from the close and the ema_200 of the last row
GetMarketContext ==
    /\ frame_pc = "done"
    /\ frame.limit = context_limit
    /\ frame_pc' = IF frame.rows < MinContextCandles THEN "unavailable" ELSE "context"
    /\ UNCHANGED frame
    /\ UNCHANGED <<scorerVars, scanVars, evalVars, helperVars>>

NextEngine == CalculateIndicators \/ GetMarketContext

SpecEngine == InitEngine /\ [][NextEngine]_vars

----------------------------------------------------------------------------
(* Properties of the scorer *)

LongSteps == <<"L1", "L2", "L3", "L4", "L5", "L6", "L7", "L8", "L9", "L10", "L11", "L12">>
ShortSteps == <<"S1", "S2", "S3", "S4", "S5", "S6", "S7", "S8", "S9", "S10", "S11", "S12">>

\* the steps from step k on
LongFrom(k) == {LongSteps[i] : i \in k..12}
ShortFrom(k) == {ShortSteps[i] : i \in k..12}

Returned(type) == {signals[i] : i \in {j \in 1..Len(signals) : signals[j].type = type}}

LastClose == df_4h.close[10]

PriceBelowEmaByMoreThan5 == 100 * LastClose < 95 * df_4h.ema_200
PriceAboveEmaByMoreThan5 == 100 * LastClose > 105 * df_4h.ema_200

\* C1: a close more than 5 % below ema_200 makes the LONG evaluation return no
\* signal at step 1: none of its steps 2-12 is ever reached and no LONG signal is
\* returned, whatever the other inputs; a close more than 5 % above ema_200 does
\* the same to the SHORT evaluation.
C1_TrendVeto ==
    /\ PriceBelowEmaByMoreThan5 => pc \notin LongFrom(2) /\ Returned("LONG") = {}
    /\ PriceAboveEmaByMoreThan5 => pc \notin ShortFrom(2) /\ Returned("SHORT") = {}

C1_Witness ==
    /\ PriceBelowEmaByMoreThan5
    /\ pc = "S1"
    /\ df_4h.rsi = 2496
    /\ calculate_market_structure(df_4h.high, df_4h.low) = "uptrend"
    /\ check_rejection_wick(Latest4h(df_4h), "bullish")

\* C2: the 4h RSI is a gate.  The LONG evaluation goes past step 3, and returns a
\* signal, only with an RSI strictly below 30, and step 3 adds 2 below 25 and 1
\* from 25 on; the SHORT evaluation only with an RSI strictly above 70, adding 2
\* above 75 and 1 up to 75.
C2_RsiGate ==
    /\ [](/\ (pc \in LongFrom(4) \/ Returned("LONG") # {})
                => IsNum(df_4h.rsi) /\ df_4h.rsi < 3000
          /\ (pc \in ShortFrom(4) \/ Returned("SHORT") # {})
                => IsNum(df_4h.rsi) /\ df_4h.rsi > 7000)
    /\ [][/\ (pc = "L3" /\ pc' = "L4")
                => score' = score + (IF df_4h.rsi < 2500 THEN 2 ELSE 1)
          /\ (pc = "S3" /\ pc' = "S4")
                => score' = score + (IF df_4h.rsi > 7500 THEN 2 ELSE 1)
          /\ (pc = "L3" /\ ~(IsNum(df_4h.rsi) /\ df_4h.rsi < 3000))
                => pc' = "S1" /\ signals' = signals
          /\ (pc = "S3" /\ ~(IsNum(df_4h.rsi) /\ df_4h.rsi > 7000))
                => pc' = "done" /\ signals' = signals]_vars

C2_Witness ==
    /\ pc = "done"
    /\ df_4h.rsi = 2500
    /\ Returned("LONG") # {}

\* C3: detect_signals never returns both signals: the list holds at most one
\* signal, and once the SHORT evaluation is past its RSI gate the LONG
\* evaluation has returned nothing.
C3_AtMostOneSignal ==
    /\ Len(signals) <= 1
    /\ pc \in ShortFrom(4) => signals = <<>>

C3_Witness ==
    /\ pc = "done"
    /\ Len(signals) = 1
    /\ signals[1].type = "LONG"

\* C4: every returned signal has a score of at least 8, and an evaluation is past
\* the score gate only with a score of at least 8.
C4_ScoreGate ==
    /\ \A i \in 1..Len(signals) : signals[i].score >= 8
    /\ pc \in {"L11", "L12", "S11", "S12"} => score >= 8

C4_Witness == \E i \in 1..Len(signals) : signals[i].score = 8

\* C5: every returned signal has risk_reward >= 1.5, and a plan whose ratio is
\* below 1.5 is rejected although its score passed the score gate.
C5_RiskRewardGate ==
    /\ [](\A i \in 1..Len(signals) : signals[i].risk_reward >= 150)
    /\ [][/\ (pc = "L12" /\ 2 * (plan.take_profit - plan.entry_price)
                              < 3 * (plan.entry_price - plan.stop_loss))
                => signals' = signals /\ pc' = "S1"
          /\ (pc = "S12" /\ 2 * (plan.entry_price - plan.take_profit)
                              < 3 * (plan.stop_loss - plan.entry_price))
                => signals' = signals /\ pc' = "done"]_vars

C5_Witness ==
    /\ pc = "L12"
    /\ score >= 8
    /\ plan.take_profit > plan.entry_price
    /\ 2 * (plan.take_profit - plan.entry_price) < 3 * (plan.entry_price - plan.stop_loss)

AbsRatio(p) == Frac(Abs(p.take_profit - p.entry_price), Abs(p.entry_price - p.stop_loss))

\* C6 as claimed: the ratio compared with 1.5 is |target - entry| / |entry - stop|
\* wherever bb_middle lies.
C6_Original == pc \in {"L12", "S12"} => Frac(plan.rr.n, plan.rr.d) = AbsRatio(plan)

\* the newest signal is off the exact ratio n / d by at most half a hundredth
ReportsRatio(sigs, n, d) ==
    2 * Abs(sigs[Len(sigs)].risk_reward * d - 100 * n) <= d

\* C6 (amended): the ratio compared with 1.5 is signed in the direction of the
\* trade, (target - entry) / (entry - stop) for LONG and (entry - target) /
\* (stop - entry) for SHORT.  It is |target - entry| / |entry - stop| when the
\* target is on the profit side of the entry; with bb_middle on the other side it
\* is the negative of that and the plan is rejected.  The signal reports the
\* ratio rounded to 2 decimals.
C6_SignedRatio ==
    /\ [](/\ pc = "L12" =>
               /\ Frac(plan.rr.n, plan.rr.d)
                    = Frac(plan.take_profit - plan.entry_price,
                           plan.entry_price - plan.stop_loss)
               /\ plan.take_profit >= plan.entry_price
                    => Frac(plan.rr.n, plan.rr.d) = AbsRatio(plan)
               /\ plan.take_profit < plan.entry_price
                    => Frac(-plan.rr.n, plan.rr.d) = AbsRatio(plan)
          /\ pc = "S12" =>
               /\ Frac(plan.rr.n, plan.rr.d)
                    = Frac(plan.entry_price - plan.take_profit,
                           plan.stop_loss - plan.entry_price)
               /\ plan.take_profit <= plan.entry_price
                    => Frac(plan.rr.n, plan.rr.d) = AbsRatio(plan)
               /\ plan.take_profit > plan.entry_price
                    => Frac(-plan.rr.n, plan.rr.d) = AbsRatio(plan))
    /\ [][/\ (pc = "L12" /\ plan.take_profit < plan.entry_price) => signals' = signals
          /\ (pc = "S12" /\ plan.take_profit > plan.entry_price) => signals' = signals
          /\ (pc \in {"L12", "S12"} /\ signals' # signals)
                => ReportsRatio(signals', Abs(plan.take_profit - plan.entry_price),
                                Abs(plan.entry_price - plan.stop_loss))]_vars

C6_Witness ==
    /\ pc = "L12"
    /\ plan.bb_middle < plan.entry_price

\* the exact plan of a signal of the given type
ExactStop(type) == IF type = "LONG" THEN 97 * LastClose ELSE 103 * LastClose
ExactTarget(type) ==
    IF type = "LONG" THEN Min(bb_middle, 106 * LastClose)
    ELSE Max(bb_middle, 94 * LastClose)

\* C7 as claimed: a returned signal carries entry = close, stop = entry x 0.97
\* (x 1.03) and take_profit = min(bb_middle, entry x 1.06) (max, x 0.94).
C7_Original ==
    \A i \in 1..Len(signals) :
        /\ signals[i].entry_price = 100 * LastClose
        /\ signals[i].stop_loss = ExactStop(signals[i].type)
        /\ signals[i].take_profit = ExactTarget(signals[i].type)

\* x is the multiple of the quantum nearest to the exact value
Rounds(x, exact) == x % 100 = 0 /\ 2 * Abs(x - exact) <= 100

\* C7 (amended): the plan is entry = latest 4h close, stop = entry x 0.97 (LONG)
\* or x 1.03 (SHORT), take_profit = min(bb_middle, entry x 1.06) (LONG) or
\* max(bb_middle, entry x 0.94) (SHORT), and the signal carries each of the three
\* rounded to 8 decimals.
C7_RoundedPlan ==
    /\ pc = "L12" =>
         /\ plan.entry_price = 100 * LastClose
         /\ plan.stop_loss = 97 * LastClose
         /\ plan.take_profit = Min(bb_middle, 106 * LastClose)
    /\ pc = "S12" =>
         /\ plan.entry_price = 100 * LastClose
         /\ plan.stop_loss = 103 * LastClose
         /\ plan.take_profit = Max(bb_middle, 94 * LastClose)
    /\ \A i \in 1..Len(signals) :
         /\ Rounds(signals[i].entry_price, 100 * LastClose)
         /\ Rounds(signals[i].stop_loss, ExactStop(signals[i].type))
         /\ Rounds(signals[i].take_profit, ExactTarget(signals[i].type))

C7_Witness ==
    /\ Returned("LONG") # {}
    /\ \E sig \in Returned("LONG") : sig.stop_loss # 97 * LastClose

\* C8: on the inputs of scenario C the LONG score is the running sum of the
\* deltas +3 +2 +2 +3 +1 +2 +2 and, for the daily step, +2 +1, with no knife
\* penalty: 18 at the score gate and in the signal.
C8_ScenarioC ==
    scenario = "C" =>
        /\ pc = "L2" => score = 3
        /\ pc = "L3" => score = 5
        /\ pc = "L4" => score = 7
        /\ pc = "L5" => score = 10
        /\ pc = "L6" => score = 11
        /\ pc = "L7" => score = 13
        /\ pc = "L8" => score = 15
        /\ pc \in {"L9", "L10", "L11", "L12"} => score = 18
        /\ \A sig \in Returned("LONG") : sig.score = 18

C8_Witness ==
    /\ scenario = "C"
    /\ Returned("LONG") # {}

Last5Mean == AvgChangePct(SubSeq(df_4h.close, 6, 10))

\* C9: with a mean change of the last 5 closes below -2 % the LONG evaluation
\* returns no signal at step 9; with a mean in [-2 %, -1 %) it goes on with the
\* score reduced by 1; otherwise it goes on with the score unchanged.  The SHORT
\* evaluation likewise: above +2 % no signal, in (+1 %, +2 %] one less.
C9_FallingKnife ==
    /\ [](/\ FracLt(Last5Mean, -2) => pc \notin LongFrom(10) /\ Returned("LONG") = {}
          /\ FracGt(Last5Mean, 2) => pc \notin ShortFrom(10) /\ Returned("SHORT") = {})
    /\ [][/\ pc = "L9" =>
               IF FracLt(Last5Mean, -2) THEN pc' = "S1" /\ signals' = signals
               ELSE IF FracLt(Last5Mean, -1) THEN pc' = "L10" /\ score' = score - 1
               ELSE pc' = "L10" /\ score' = score
          /\ pc = "S9" =>
               IF FracGt(Last5Mean, 2) THEN pc' = "done" /\ signals' = signals
               ELSE IF FracGt(Last5Mean, 1) THEN pc' = "S10" /\ score' = score - 1
               ELSE pc' = "S10" /\ score' = score]_vars

C9_Witness ==
    /\ pc = "L10"
    /\ Last5Mean = Frac(-2, 1)

\* C16: when the daily series is absent from the snapshot, step 8 of either
\* evaluation changes the score by nothing and goes on to step 9; an emitted
\* signal reports rsi_1d = None exactly when the daily series is absent and
\* rsi_1h = None exactly when the hourly series is absent, and the rounded RSI
\* of the record otherwise.
C16_OptionalTimeframes ==
    /\ [](\A i \in 1..Len(signals) :
             /\ latest_1d # Unread
             /\ latest_1h # Unread
             /\ signals[i].rsi_1d
                   = IF latest_1d.present THEN Round1(latest_1d.rsi) ELSE None
             /\ signals[i].rsi_1h
                   = IF latest_1h.present THEN Round1(latest_1h.rsi) ELSE None)
    /\ [][/\ (pc = "L8" /\ latest_1d' = NoCandle) => (pc' = "L9" /\ score' = score)
          /\ (pc = "S8" /\ latest_1d' = NoCandle) => (pc' = "S9" /\ score' = score)
          /\ (pc \notin {"L8", "S8"} /\ latest_1d # Unread) => latest_1d' = latest_1d
          /\ latest_1h # Unread => latest_1h' = latest_1h]_vars

\* a LONG signal emitted from a snapshot without hourly and daily series
C16_Witness ==
    /\ latest_1d = NoCandle
    /\ latest_1h = NoCandle
    /\ \E i \in 1..Len(signals) :
          /\ signals[i].type = "LONG"
          /\ signals[i].rsi_1d = None
          /\ signals[i].rsi_1h = None

\* the counters of the loop over the window, candle by candle from the third:
\* [higher, lower] of xs[1..n]
RECURSIVE Pivots(_, _)
Pivots(xs, n) ==
    IF n < 3 THEN [higher |-> 0, lower |-> 0]
    ELSE LET before == Pivots(xs, n - 1)
         IN  IF xs[n] > xs[n-1] /\ xs[n-1] > xs[n-2]
             THEN [before EXCEPT !.higher = @ + 1]
             ELSE IF xs[n] < xs[n-1] /\ xs[n-1] < xs[n-2]
             THEN [before EXCEPT !.lower = @ + 1]
             ELSE before

StrictlyIncreasing(xs) == \A i \in 2..Len(xs) : xs[i] > xs[i-1]
StrictlyDecreasing(xs) == \A i \in 2..Len(xs) : xs[i] < xs[i-1]
Alternates(xs) ==
    \A i \in 3..Len(xs) : (xs[i] > xs[i-1]) # (xs[i-1] > xs[i-2]) /\ xs[i] # xs[i-1]

\* C17: over the last 10 candles the structure is uptrend exactly when the
\* highs count more higher than lower highs and the lows more higher than
\* lower lows, downtrend exactly in the mirrored case, range otherwise;
\* strictly increasing highs and lows give uptrend, strictly decreasing ones
\* downtrend, alternating ones range.
C17_MarketStructure ==
    pc = "done" /\ market_structure # "unset" =>
        LET h == Pivots(df_4h.high, 10)
            l == Pivots(df_4h.low, 10)
        IN  /\ market_structure = "uptrend"
                  <=> (h.higher > h.lower /\ l.higher > l.lower)
            /\ market_structure = "downtrend"
                  <=> (h.lower > h.higher /\ l.lower > l.higher)
            /\ market_structure \in {"uptrend", "downtrend", "range"}
            /\ (StrictlyIncreasing(df_4h.high) /\ StrictlyIncreasing(df_4h.low))
                  => market_structure = "uptrend"
            /\ (StrictlyDecreasing(df_4h.high) /\ StrictlyDecreasing(df_4h.low))
                  => market_structure = "downtrend"
            /\ (Alternates(df_4h.high) /\ Alternates(df_4h.low))
                  => market_structure = "range"

\* mixed counts: the highs rise all along, the lows fall all along
C17_Witness ==
    /\ pc = "done"
    /\ StrictlyIncreasing(df_4h.high)
    /\ StrictlyDecreasing(df_4h.low)
    /\ market_structure = "range"

\* C18 as stated: in scenario A, where the closes of the last 10 candles
\* decline, the structure is downtrend and the LONG evaluation goes no further
\* than step 2.
C18_Original ==
    scenario = "A" =>
        /\ StrictlyDecreasing(df_4h.close)
        /\ calculate_market_structure(df_4h.high, df_4h.low) = "downtrend"
        /\ pc \notin LongFrom(3)

DecliningHighsAndLows == StrictlyDecreasing(df_4h.high) /\ StrictlyDecreasing(df_4h.low)

\* C18, amended: when the highs and the lows of the last 10 candles both
\* decline strictly, the LONG evaluation never goes beyond step 2 and returns
\* no signal, whatever the RSI: step 2 rejects it, unless step 1 already did
\* because the close is more than 5 % below ema_200.
C18_ScenarioA ==
    /\ [](DecliningHighsAndLows =>
             /\ pc \notin LongFrom(3)
             /\ Returned("LONG") = {})
    /\ [][DecliningHighsAndLows =>
             /\ pc = "L1" => pc' = IF PriceBelowEmaByMoreThan5 THEN "S1" ELSE "L2"
             /\ pc = "L2" => (pc' = "S1" /\ signals' = signals)]_vars

\* scenario A with declining highs and lows and an oversold RSI: step 1 has
\* passed and step 2 has rejected
C18_Witness ==
    /\ scenario = "A"
    /\ DecliningHighsAndLows
    /\ ~PriceBelowEmaByMoreThan5
    /\ df_4h.rsi = 2496
    /\ pc = "S1"

StepDeltas ==
    <<{-2, 3}, {1, 2}, {1, 2}, {0, 3}, {-2, 0, 1}, {0, 2}, {0, 2}, {-1, 0, 1, 3}, {-1, 0},
      {0}>>

\* C25: the score of every emitted signal lies in [8, 18].  The running score
\* is the plain sum of what the steps add: a step that does not reject changes
\* it by one of its own amounts whatever its sign, so that it is negative after
\* the penalty of step 1 and stays between -4 and 18 all along.
C25_ScoreRange ==
    /\ [](/\ \A i \in 1..Len(signals) : signals[i].score \in 8..18
          /\ score \in -4..18
          /\ (pc = "L2" /\ LastClose < df_4h.ema_200) => score = -2
          /\ (pc = "S2" /\ LastClose > df_4h.ema_200) => score = -2)
    /\ [][\A k \in 1..10 :
            /\ (pc = LongSteps[k] /\ pc' = LongSteps[k + 1])
                  => score' - score \in StepDeltas[k]
            /\ (pc = ShortSteps[k] /\ pc' = ShortSteps[k + 1])
                  => score' - score \in StepDeltas[k]]_vars

\* the LONG evaluation is at step 6 with a negative score
C25_Witness ==
    /\ pc = "L6"
    /\ score < 0

----------------------------------------------------------------------------
(* Properties of the helpers *)

\* record i is strictly below (sgn = -1) or above (sgn = 1) its two neighbours
\* on each side
IsPivot(xs, i, sgn) ==
    /\ i - 2 >= 1
    /\ i + 2 <= Len(xs)
    /\ \A d \in {-2, -1, 1, 2} : sgn * xs[i] > sgn * xs[i + d]

PivotSet(xs, sgn) == {i \in 1..Len(xs) : IsPivot(xs, i, sgn)}

\* i and j are the two most recent pivots of the window
LastTwoPivots(xs, i, j, sgn) ==
    /\ i < j
    /\ \A k \in PivotSet(xs, sgn) : k <= i \/ k = j

\* at the two most recent pivots the price went further (down for sgn = -1, up
\* for sgn = 1) and the RSI came back
Diverges(w, sgn) ==
    \E i, j \in PivotSet(w.close, sgn) :
        /\ LastTwoPivots(w.close, i, j, sgn)
        /\ sgn * w.close[j] > sgn * w.close[i]
        /\ IsNum(w.rsi[i])
        /\ IsNum(w.rsi[j])
        /\ sgn * w.rsi[j] < sgn * w.rsi[i]

\* C22 as stated: the helper returns true exactly when the window holds two
\* pivots of which the more recent has the lower price and the higher RSI
\* (bullish), or the higher price and the lower RSI (bearish).
C22_Original ==
    verdict.returned =>
        /\ verdict.bullish <=> Diverges(window, -1)
        /\ verdict.bearish <=> Diverges(window, 1)

\* C22, amended: on a window of at least 10 records the helper returns true
\* for 'bullish' exactly when the window holds at least two low pivots and the
\* most recent has a lower price and a higher RSI than the one before it, and
\* for 'bearish' exactly in the mirrored case on high pivots; on fewer than 10
\* records it returns false, whatever the pivots.
C22_Divergence ==
    verdict.returned =>
        /\ verdict.bullish <=> (Len(window.close) >= 10 /\ Diverges(window, -1))
        /\ verdict.bearish <=> (Len(window.close) >= 10 /\ Diverges(window, 1))

\* three low pivots, the last two with a lower low and a higher RSI, the
\* first two without
C22_Witness ==
    /\ verdict.returned
    /\ verdict.bullish
    /\ Len(window.close) = 20
    /\ Cardinality(PriceLowsIdx(window.close)) = 3
    /\ \E i, j \in PriceLowsIdx(window.close) :
          /\ i < j
          /\ j < 16
          /\ ~(window.close[j] < window.close[i])

\* the body of the candle, from its lower to its upper end
BodyLow(c) == IF c.close >= c.open THEN c.open ELSE c.close
BodyHigh(c) == IF c.close >= c.open THEN c.close ELSE c.open

\* C23: a candle is a bullish rejection exactly when its range is not zero and
\* its lower wick, from the low to the lower end of the body, is more than
\* twice the body and more than half the range; a bearish rejection exactly
\* when the upper wick, from the upper end of the body to the high, is; a
\* candle without range is neither.
C23_RejectionWick ==
    verdict.returned =>
        LET body == BodyHigh(window) - BodyLow(window)
            range == window.high - window.low
            lower == BodyLow(window) - window.low
            upper == window.high - BodyHigh(window)
        IN  /\ verdict.bullish <=> (range # 0 /\ lower > 2 * body /\ 2 * lower > range)
            /\ verdict.bearish <=> (range # 0 /\ upper > 2 * body /\ 2 * upper > range)
            /\ range = 0 => ~verdict.bullish /\ ~verdict.bearish

\* a lower wick of exactly twice the body, and more than half the range, is
\* no rejection
C23_Witness ==
    /\ verdict.returned
    /\ ~verdict.bullish
    /\ window.close - window.open = 1
    /\ window.open - window.low = 2
    /\ window.high = window.close

----------------------------------------------------------------------------
(* Properties of the indicator engine *)

\* calculate_indicators has run on the frame
Enriched == frame_pc \in {"done", "context", "unavailable"}

\* C19: the RSI that calculate_indicators computes from a full 14-period
\* window is a number in [0, 100], and it is 100 whenever the average loss of
\* the window is zero.
C19_RsiDefined ==
    Enriched /\ frame.rows >= 15 =>
        /\ frame.rsi.kind = "num"
        /\ 0 <= frame.rsi.n
        /\ frame.rsi.n <= 100 * frame.rsi.d
        /\ Losses(frame.close) = 0 => frame.rsi = Num(100, 1)

\* C20: after calculate_indicators has run the frame carries dist_bb_lower
\* and dist_bb_upper, which the scorer reads from the latest 4h record.
C20_BandDistances ==
    Enriched /\ "bb_lower" \in frame.columns =>
        {"dist_bb_lower", "dist_bb_upper"} \subseteq frame.columns

\* C21: ema_200 is undefined on every record with fewer than 200 observations
\* behind it, so get_market_context never computes its trend from an ema_200
\* made of fewer than 200 candles.
C21_EmaWindow ==
    /\ Enriched /\ frame.rows < 200 => frame.ema_200.kind = "nan"
    /\ frame_pc = "context" => frame.ema_200.points >= 200

----------------------------------------------------------------------------
(* Properties of the scan *)

\* the key of the signal the iteration holds
CurrentKey == signal_key(watchlist[symbol_idx], signal)

\* C10: a message for a key is posted only when the ledger holds no entry for
\* the key or an entry more than 6 hours old; the stamp that follows the post
\* sets the entry to the time it is made at, and only such a stamp changes the
\* ledger; any two messages for one key are more than 6 hours apart.
C10_Dedupe ==
    /\ [](\A k \in DOMAIN notifications :
             \A i, j \in 1..Len(notifications[k]) :
                i < j => notifications[k][j] - notifications[k][i] > Cooldown)
    /\ [][/\ notifications' # notifications
                => /\ CurrentKey \notin DOMAIN sent_signals
                      \/ now - sent_signals[CurrentKey] > Cooldown
                   /\ notifications'[CurrentKey]
                         = Append(Get(notifications, CurrentKey, <<>>), now)
                   /\ scan_pc' = "stamp"
          /\ (scan_pc = "stamp" /\ scan_pc' # "stamp")
                => /\ CurrentKey \in DOMAIN sent_signals'
                   /\ sent_signals'[CurrentKey] = now
          /\ sent_signals' # sent_signals
                => /\ scan_pc = "stamp"
                   /\ \A k \in DOMAIN sent_signals :
                         k # CurrentKey => /\ k \in DOMAIN sent_signals'
                                           /\ sent_signals'[k] = sent_signals[k]]_vars

C10_Witness ==
    \E k \in DOMAIN notifications :
        /\ Len(notifications[k]) = 2
        /\ notifications[k][2] - notifications[k][1] = Cooldown + 1

\* C11: the ledger is empty when the process starts, an entry is created or
\* overwritten only by the stamp of an emission, no entry is ever removed, and
\* the ledger never holds more keys than watchlist size x 2 directions x number
\* of timeframes.
C11_LedgerBound ==
    /\ [](scans = 0 => sent_signals = <<>>)
    /\ [](Cardinality(DOMAIN sent_signals) <= Len(watchlist) * 2 * Len(timeframes))
    /\ [][/\ DOMAIN sent_signals \subseteq DOMAIN sent_signals'
          /\ sent_signals' # sent_signals => scan_pc = "stamp"]_vars

\* the iteration of the current symbol ends: the scan is on the next symbol,
\* or over after the last one
NextSymbol ==
    IF symbol_idx < Len(watchlist)
    THEN symbol_idx' = symbol_idx + 1 /\ scan_pc' = "symbol"
    ELSE symbol_idx' = 0 /\ scan_pc' = "idle"

\* C14: an exception raised while one instrument is evaluated ends the
\* iteration of that instrument only: the scan goes on with the next
\* instrument, it ends only after the last one, so every instrument of the
\* watchlist is evaluated in every scan, and the scan always returns to the
\* scheduling loop.  An iteration whose send_claude_signal raises posts
\* nothing and stamps nothing.
C14_ExceptionIsolation ==
    /\ [](scan_pc \in {"idle", "symbol", "send", "stamp"})
    /\ [](scan_pc = "idle" <=> symbol_idx = 0)
    /\ [][/\ (scan_pc # "idle" /\ symbol_idx' # symbol_idx) => NextSymbol
          /\ (scan_pc # "idle" /\ scan_pc' = "idle") => symbol_idx = Len(watchlist)
          /\ (scan_pc = "send" /\ "entry" \notin signal.keys /\ scan_pc' # "send")
                => /\ NextSymbol
                   /\ UNCHANGED <<sent_signals, notifications>>
          /\ (scan_pc = "symbol" /\ scan_pc' \notin {"symbol", "send"})
                => symbol_idx = Len(watchlist)]_vars

\* the first iteration of the first scan recorded a signal and posted nothing,
\* so it raised, and the scan is on the second instrument
C14_Witness ==
    /\ scans = 1
    /\ scan_pc = "symbol"
    /\ symbol_idx = 2
    /\ daily_stats.total_signals = 1
    /\ DOMAIN sent_signals = {}
    /\ DOMAIN notifications = {}

\* the ledger with the entry of key k set to time t
Stamped(ledger, k, t) ==
    [j \in DOMAIN ledger \cup {k} |-> IF j = k THEN t ELSE ledger[j]]

\* C26: the ledger entry of a key is written exactly when send_claude_signal
\* has returned without raising, whatever became of the post: a send that
\* returns is followed by the stamp of the key with the time of the stamp,
\* also when the delivery failed or the bot has no token, and any two sends
\* for a key are then more than 6 hours apart; a send that raises ends the
\* iteration with the ledger unchanged; nothing else writes the ledger.
C26_StampOnReturn ==
    /\ [](\A k \in DOMAIN notifications :
             /\ k \in DOMAIN deliveries
             /\ Len(deliveries[k]) = Len(notifications[k])
             /\ \A i, j \in 1..Len(notifications[k]) :
                   i < j => notifications[k][j] - notifications[k][i] > Cooldown)
    /\ [][/\ (scan_pc = "send" /\ "entry" \in signal.keys /\ scan_pc' # "send")
                => /\ scan_pc' = "stamp"
                   /\ sent_signals' = sent_signals
                   /\ Len(deliveries'[CurrentKey]) = Len(Get(deliveries, CurrentKey, <<>>)) + 1
          /\ (scan_pc = "stamp" /\ scan_pc' # "stamp")
                => sent_signals' = Stamped(sent_signals, CurrentKey, now)
          /\ (scan_pc = "send" /\ "entry" \notin signal.keys /\ scan_pc' # "send")
                => /\ scan_pc' \in {"symbol", "idle"}
                   /\ UNCHANGED <<sent_signals, notifications, deliveries>>
          /\ sent_signals' # sent_signals => scan_pc = "stamp"]_vars

\* the only message for a key was lost, the key is stamped all the same, and a
\* second detection of the signal within the 6 hours was suppressed
C26_Witness ==
    /\ scans = 2
    /\ scan_pc = "idle"
    /\ daily_stats.long_signals = 2
    /\ daily_stats.short_signals = 0
    /\ \E k \in DOMAIN sent_signals :
          /\ k[2] = "LONG"
          /\ deliveries[k] = <<"exception">>
          /\ Len(notifications[k]) = 1
          /\ now - sent_signals[k] = Cooldown

\* the complete signals the analyst of the scans can answer with
CompleteSignals ==
    {sig \in AnyAnalyses : sig # NoSignal /\ sig.keys = AllKeys}

\* the iteration of the current symbol can detect sig and go on to send it
CanSend(sig) == ENABLED (EvaluateSymbol /\ signal' = sig /\ scan_pc' = "send")

\* C27: an iteration that detects a signal and does not go on to send it leaves
\* the ledger and the notifications as they are, and so does every iteration
\* up to the send.  The cooldown runs from the stamp of the last emission: a
\* detected signal is sent exactly when its key has no entry or an entry more
\* than 6 hours old, however often it was detected in between.
C27_Suppression ==
    /\ [](scan_pc = "symbol" =>
             \A sig \in CompleteSignals :
                LET key == signal_key(watchlist[symbol_idx], sig)
                IN  CanSend(sig) <=> (key \notin DOMAIN sent_signals
                                       \/ now - sent_signals[key] > Cooldown))
    /\ [](\A k \in DOMAIN sent_signals :
             /\ k \in DOMAIN notifications
             /\ (scan_pc = "stamp" /\ k = CurrentKey)
                   \/ sent_signals[k] >= notifications[k][Len(notifications[k])])
    /\ [][scan_pc = "symbol" => UNCHANGED <<sent_signals, notifications, deliveries>>]_vars

\* a signal sent in the first scan, detected again and suppressed in the
\* second, 6 hours after the stamp, and detected again in the third, one
\* period later: it is about to be sent
C27_Witness ==
    /\ scans = 3
    /\ scan_pc = "send"
    /\ daily_stats.total_signals = 3
    /\ daily_stats.long_signals = 3
    /\ CurrentKey \in DOMAIN sent_signals
    /\ now - sent_signals[CurrentKey] = Cooldown + 1
    /\ Len(notifications[CurrentKey]) = 1

\* C28: at every point of every sequence of scans and daily summaries the
\* statistics count each detected signal once in total_signals, once in
\* long_signals or short_signals, once in confidences and once in confluences,
\* and never more signals than analyses, whether the iteration went on to
\* send, was suppressed by the cooldown or ended in the exception handler.
C28_StatsConsistent ==
    /\ daily_stats.total_signals = daily_stats.long_signals + daily_stats.short_signals
    /\ daily_stats.total_signals = Len(daily_stats.confidences)
    /\ daily_stats.total_signals = Len(daily_stats.confluences)
    /\ daily_stats.total_signals <= daily_stats.total_analyses
    /\ daily_stats.long_signals >= 0
    /\ daily_stats.short_signals >= 0

\* two scans of two instruments detected four signals, two of each direction;
\* one was sent, and at least two iterations ended in the exception handler
\* after the statistics were recorded, their keys having no ledger entry
C28_Witness ==
    /\ scans = 2
    /\ scan_pc = "idle"
    /\ daily_stats.total_analyses = 4
    /\ daily_stats.long_signals = 2
    /\ daily_stats.short_signals = 2
    /\ Cardinality(DOMAIN sent_signals) = 1
    /\ \A k \in DOMAIN notifications : Len(notifications[k]) = 1

----------------------------------------------------------------------------
(* Properties of the loop body *)

\* the fetch loop ends with the `data` that fetch_data, taken as a function of
\* what the exchange does, gives
FetchLoopAgrees == eval_pc \in {"test", "analyze", "done"} => held = FetchLoop(ohlcv)

\* C12: an instrument whose 4-hour series was fetched with at least 200
\* candles is analysed, whether or not the hourly and the daily series were
\* fetched.
C12_FourHourSuffices ==
    (eval_pc = "done" /\ dfs["4h"].present /\ dfs["4h"].candles >= MinCandles)
        => outcome.state = "analysed"

\* the attempts of fetch_data on which the exchange does not raise
Successes(tf) == {k \in 1..3 : ~ohlcv[tf][k].raises}

FirstSuccess(tf) == CHOOSE k \in Successes(tf) : \A j \in Successes(tf) : k <= j

WellFormed(response_) ==
    /\ response_.kind = "json"
    /\ "signal" \in response_.payload.keys
    /\ response_.payload.signal \in {"LONG", "SHORT"}

\* C13: analyze_coin yields a signal only when the response is a JSON object
\* whose signal field is LONG or SHORT, and then yields that object; any other
\* response (NOTHING, another or no signal value, a text that is not JSON or
\* no object, an API failure) yields None and the iteration does not end in
\* the exception handler; the API is called exactly once per invocation.
C13_AnalystYield ==
    /\ api_calls = IF eval_pc = "done" /\ outcome.state = "analysed" THEN 1 ELSE 0
    /\ outcome.state \in {"running", "analysed", "insufficient"}
    /\ (eval_pc = "done" /\ outcome.state = "analysed")
          => outcome.signal = IF WellFormed(response) THEN response.payload ELSE NoSignal
    /\ outcome.state # "analysed" => outcome.signal = NoSignal

C13_Witness ==
    /\ eval_pc = "done"
    /\ outcome.state = "analysed"
    /\ response.kind = "json"
    /\ response.payload.keys = AllKeys
    /\ response.payload.signal = "BUY"
    /\ outcome.signal = NoSignal
    /\ api_calls = 1

====
